---- MODULE Spec2Model ----
(***************************************************************************)
(* Sentinel scan orchestrator (app/api/sentinel.py) with its collaborators *)
(* (planner, mission executor, risk scorer, deep-dive expander,            *)
(* correlation engine, narrative generator, scan memory) and the Redis     *)
(* progress store.  One scan is followed from start_scan to its terminal   *)
(* snapshot.  Every action is one run of the event loop between two awaits *)
(* of the coroutine it belongs to.                                         *)
(***************************************************************************)
EXTENDS Integers, Sequences, FiniteSets, TLC

\* ------------------------------------------------------------------ bounds
\* Most missions one scan executes: the planner's answer plus all follow-ups.
MaxMissions == 3
\* Most follow-up objects in one deep-dive answer of the LLM.
MaxItems == 3

\* ------------------------------------------------- constants of the program
MAX_DEPTH == 2
MAX_FOLLOWUPS == 2
TRIGGER_THRESHOLD == 1
DeepDiveMinRisk == 40

None == "None"

Min(a, b) == IF a < b THEN a ELSE b
Max(a, b) == IF a > b THEN a ELSE b

RECURSIVE SumSeq(_)
SumSeq(s) == IF s = <<>> THEN 0 ELSE Head(s) + SumSeq(Tail(s))

\* The elements of a list.
SeqSet(s) == {s[i] : i \in 1..Len(s)}

\* Python's round() on a non-negative rational n/d: half goes to the even side.
RoundHalfEven(n, d) ==
    LET q == n \div d
        r == n % d
    IN  IF 2 * r > d THEN q + 1
        ELSE IF 2 * r < d THEN q
        ELSE IF q % 2 = 0 THEN q ELSE q + 1

\* ------------------------------------------------------------ result rows
\* A row of a query result.  dict = FALSE stands for a row that is not a
\* mapping (r.get raises on it).
Row(uid, usd, pep, kyc, isdict) ==
    [user_id |-> uid, amount_usd |-> usd, is_pep |-> pep, kyc_status |-> kyc,
     dict |-> isdict]

EmptyRows == <<>>
LowRows == << Row("u1", 500, FALSE, "VERIFIED", TRUE) >>
HighRows == << Row("u1", 90000, TRUE, "EXPIRED", TRUE),
               Row("u2", 80000, TRUE, "PENDING", TRUE),
               Row("u3", 70000, FALSE, "VERIFIED", TRUE) >>
BadRows == << Row("u9", 0, FALSE, "VERIFIED", FALSE) >>

\* What app_graph.ainvoke can do for one mission: raise, or return a state
\* whose query_result is one of these row lists.
ResultSets == {EmptyRows, LowRows, HighRows, BadRows}
QaOutcomes == {[raised |-> TRUE, rows |-> <<>>]}
              \cup {[raised |-> FALSE, rows |-> rs] : rs \in ResultSets}

\* --------------------------------------------------------------- missions
MissionKeys == {"id", "name", "query", "domain", "severity"}

\* The mission objects a planner answer may hold (json.loads output is not
\* validated): well-formed ones, with or without a severity, ones that lack
\* a key, and one whose "id" repeats the id of the first object of the list
\* (idOf = 0 stands for an id of the object's own).
WellFormed ==
    << [domain |-> "security",   severity |-> "HIGH", keys |-> MissionKeys, idOf |-> 0],
       [domain |-> "compliance", severity |-> None,   keys |-> MissionKeys \ {"severity"}, idOf |-> 0] >>
Malformed ==
    { [domain |-> "security", severity |-> "HIGH", keys |-> MissionKeys \ {"query"}, idOf |-> 0],
      [domain |-> "security", severity |-> "HIGH", keys |-> MissionKeys \ {"id"}, idOf |-> 0] }
RepeatedId ==
    [domain |-> "security", severity |-> "HIGH", keys |-> MissionKeys, idOf |-> 1]

PlannedMission(k, t) ==
    [domain |-> t.domain, severity |-> t.severity, keys |-> t.keys,
     id |-> "m" \o ToString(IF t.idOf = 0 THEN k ELSE t.idOf),
     depth |-> 0, parent |-> None]

FallbackMission ==
    [domain |-> "security", severity |-> "HIGH", keys |-> MissionKeys,
     id |-> "fall-001", depth |-> 0, parent |-> None]

\* mission.get("severity", dflt)
SeverityOr(m, dflt) == IF "severity" \in m.keys THEN m.severity ELSE dflt

\* ------------------------------------------------------------ risk scorer
\* DynamicRiskScorer: the factor scores, each 0..100.
UserIds(results) == {results[i].user_id : i \in 1..Len(results)} \ {""}

score_affected_entities(results) ==
    LET count == IF Cardinality(UserIds(results)) > 0
                 THEN Cardinality(UserIds(results)) ELSE Len(results)
    IN  Min(100, count * 10)

score_dollar_exposure(results) ==
    LET total == SumSeq([i \in 1..Len(results) |->
                          IF results[i].amount_usd < 0 THEN 0 - results[i].amount_usd
                          ELSE results[i].amount_usd])
    IN  Min(100, total \div 1000)

score_velocity(results) == Min(100, Len(results) * 5)

score_pep(results) ==
    Min(100, Cardinality({i \in 1..Len(results) : results[i].is_pep}) * 30)

score_kyc(results) ==
    Min(100, Cardinality({i \in 1..Len(results) :
                  results[i].kyc_status \in {"EXPIRED", "PENDING", "REJECTED"}}) * 15)

score_escalation(mission) ==
    LET sev == IF "severity" \in mission.keys THEN mission.severity ELSE "MEDIUM"
    IN  CASE sev = "CRITICAL" -> 80
          [] sev = "HIGH" -> 50
          [] OTHER -> 25

severity_from_score(s) ==
    IF s >= 75 THEN "CRITICAL"
    ELSE IF s >= 50 THEN "HIGH"
    ELSE IF s >= 25 THEN "MEDIUM"
    ELSE "LOW"

\* r.get(...) on a row that is no mapping raises (AttributeError).
ScoreRaises(results) == \E i \in 1..Len(results) : ~results[i].dict

\* score(mission, results) for results it does not raise on.  The weights are
\* FACTOR_WEIGHTS times 100.
score(mission, results) ==
    IF results = <<>>
    THEN [severity |-> "LOW", risk_score |-> 0]
    ELSE LET w100 == 20 * score_affected_entities(results)
                     + 25 * score_dollar_exposure(results)
                     + 15 * score_velocity(results)
                     + 15 * score_pep(results)
                     + 10 * score_kyc(results)
                     + 15 * score_escalation(mission)
             rs == Min(100, Max(0, RoundHalfEven(w100, 100)))
         IN  [severity |-> severity_from_score(rs), risk_score |-> rs]

\* ------------------------------------------------------- mission executor
\* run_mission reads mission["query"] and mission["domain"] before its try,
\* and mission["id"] / mission["name"] both in the try and in the except
\* handler: a mission lacking one of them makes the coroutine raise KeyError.
RunMissionRaises(m) == ~({"query", "domain", "id", "name"} \subseteq m.keys)

\* str(e) of whatever the try block raised.
ErrorText == "str(e)"

\* The Detection of the except branch.
DegradedDetection(m) ==
    [domain |-> m.domain, severity |-> SeverityOr(m, "MEDIUM"),
     depth |-> m.depth, parent |-> m.parent,
     results |-> <<>>, risk_score |-> 0, mission_id |-> m.id,
     error |-> ErrorText, data_count |-> 0]

\* The Detection of the try branch.
ScoredDetection(m, rows) ==
    [domain |-> m.domain, severity |-> score(m, rows).severity,
     depth |-> m.depth, parent |-> m.parent, results |-> rows,
     risk_score |-> score(m, rows).risk_score, mission_id |-> m.id,
     error |-> None, data_count |-> Len(rows)]

\* run_mission(mission) for a mission it does not raise on, given what the
\* question-answering graph did.
run_mission(m, qa) ==
    IF qa.raised THEN DegradedDetection(m)
    ELSE IF ScoreRaises(qa.rows) THEN DegradedDetection(m)
    ELSE ScoredDetection(m, qa.rows)

\* -------------------------------------------------------------- deep dive
should_deep_dive(d) ==
    /\ d.error = None
    /\ Len(d.results) >= TRIGGER_THRESHOLD
    /\ d.risk_score >= DeepDiveMinRisk

\* What the follow-up LLM call can do: raise, answer text that is no JSON,
\* or answer a JSON list of n objects, the last of which may lack "query".
FollowupAnswers ==
    {[n |-> 0, kind |-> "raise", lastHasQuery |-> TRUE],
     [n |-> 0, kind |-> "text", lastHasQuery |-> TRUE]}
    \cup {[n |-> n, kind |-> "json", lastHasQuery |-> TRUE] : n \in 0..MaxItems}
    \cup {[n |-> n, kind |-> "json", lastHasQuery |-> FALSE] : n \in 1..MaxItems}

\* A follow-up that keeps its parent's depth.
FollowupMissionAtParentDepth(d, depth, i) ==
    [domain |-> d.domain, severity |-> d.severity, keys |-> MissionKeys,
     id |-> "dd-" \o d.mission_id \o "-" \o ToString(depth + 1) \o "-" \o ToString(i),
     depth |-> depth, parent |-> d.mission_id]

FollowupMission(d, depth, i) ==
    [domain |-> d.domain, severity |-> d.severity, keys |-> MissionKeys,
     id |-> "dd-" \o d.mission_id \o "-" \o ToString(depth + 1) \o "-" \o ToString(i),
     depth |-> depth + 1, parent |-> d.mission_id]
\* generate_followups without its depth guard.
generate_followups_at_any_depth(d, depth, ans) ==
    IF ans.kind # "json" THEN <<>>
    ELSE LET used == Min(ans.n, MAX_FOLLOWUPS)
         IN  IF ~ans.lastHasQuery /\ ans.n <= MAX_FOLLOWUPS THEN <<>>
             ELSE [i \in 1..used |-> FollowupMission(d, depth, i - 1)]

\* generate_followups(mission_result, depth) given the LLM's answer.  Only
\* the first MAX_FOLLOWUPS objects are read; f["query"] on an object without
\* it raises inside the try and the whole answer is dropped.
generate_followups(d, depth, ans) ==
    IF depth >= MAX_DEPTH THEN <<>>
    ELSE IF ans.kind # "json" THEN <<>>
    ELSE LET used == Min(ans.n, MAX_FOLLOWUPS)
         IN  IF ~ans.lastHasQuery /\ ans.n <= MAX_FOLLOWUPS THEN <<>>
             ELSE [i \in 1..used |-> FollowupMission(d, depth, i - 1)]

\* ---------------------------------------------------------------- planner
\* What the brainstorming LLM call can do: raise (chain.ainvoke is outside the
\* try), answer text that is no JSON, answer a JSON value that is no list, or
\* answer a JSON list of mission objects.
GoodPlan(n) == [i \in 1..n |-> WellFormed[((i - 1) % Len(WellFormed)) + 1]]
\* The lists of n <= MaxMissions objects of which at most one is malformed,
\* and the list of two objects with the same id.
Plans ==
    {GoodPlan(n) : n \in 0..MaxMissions}
    \cup UNION {{[GoodPlan(n) EXCEPT ![k] = t] : k \in 1..n, t \in Malformed} :
                   n \in 1..MaxMissions}
    \cup {[GoodPlan(2) EXCEPT ![2] = RepeatedId]}
PlannerAnswers ==
    {[kind |-> "raise", items |-> <<>>],
     [kind |-> "text", items |-> <<>>],
     [kind |-> "object", items |-> <<>>]}
    \cup {[kind |-> "json", items |-> p] : p \in Plans}

BrainstormRaises(ans) == ans.kind = "raise"

\* brainstorm_missions() for an answer it does not raise on: the parsed list,
\* [] when json.loads fails.  A JSON object comes back as it is.
brainstorm_missions(ans) ==
    IF ans.kind = "json"
    THEN [i \in 1..Len(ans.items) |-> PlannedMission(i, ans.items[i])]
    ELSE <<>>

\* ------------------------------------------------------------ correlation
\* The entity references of one Detection's rows ("user_id:<value>").
EntityRefs(d) ==
    {"user_id:" \o d.results[i].user_id :
        i \in {j \in 1..Len(d.results) : d.results[j].user_id # ""}}

\* _build_entity_map + _find_overlaps: the entity references seen in rows of at
\* least two distinct mission ids.
Overlaps(detections) ==
    {e \in UNION {EntityRefs(detections[i]) : i \in 1..Len(detections)} :
        Cardinality({detections[i].mission_id :
            i \in {j \in 1..Len(detections) : e \in EntityRefs(detections[j])}}) >= 2}

\* What the clustering LLM call can do: raise, answer text that is no JSON, or
\* answer a JSON list of n clusters.
CorrelateAnswers ==
    {[n |-> 0, kind |-> "raise"], [n |-> 0, kind |-> "text"],
     [n |-> 0, kind |-> "json"], [n |-> 1, kind |-> "json"]}

\* _llm_correlate given the LLM's answer.
llm_correlate(ans) ==
    IF ans.kind = "json" THEN [i \in 1..ans.n |-> "TC-00" \o ToString(i)] ELSE <<>>
\* ------------------------------------------- correlation, candidate by candidate
\* overlaps[:10]
MAX_OVERLAPS == 10

RECURSIVE Flatten(_)
Flatten(ss) == IF ss = <<>> THEN <<>> ELSE Head(ss) \o Flatten(Tail(ss))

\* The elements of a list in the order of their first occurrence ("if x not
\* in ...: append").
RECURSIVE FirstOccurrences(_)
FirstOccurrences(s) ==
    IF s = <<>> THEN <<>>
    ELSE <<Head(s)>> \o FirstOccurrences(SelectSeq(Tail(s), LAMBDA x : x # Head(s)))

\* The entity references of one Detection's rows, row by row.
EntityRefSeq(d) ==
    LET rows == SelectSeq(d.results, LAMBDA r : r.user_id # "")
    IN  [i \in 1..Len(rows) |-> "user_id:" \o rows[i].user_id]

\* The entry a Detection leaves under each of its entity references (the
\* mission's name goes with its id).
EntityEntry(d) == [domain |-> d.domain, mission_id |-> d.mission_id]

\* _build_entity_map(detections): the references in the order they are first
\* seen, each with the entries of the Detections that hold it, no entry twice.
build_entity_map(detections) ==
    LET refs == FirstOccurrences(Flatten([i \in 1..Len(detections) |->
                                             EntityRefSeq(detections[i])]))
        holders(e) == SelectSeq(detections, LAMBDA d : e \in EntityRefs(d))
    IN  [p \in 1..Len(refs) |->
            [entity |-> refs[p],
             missions |-> FirstOccurrences([i \in 1..Len(holders(refs[p])) |->
                                               EntityEntry(holders(refs[p])[i])])]]

\* An entry of the entity map that passes for any number of missions.
IsOverlapOfAnyCount(e) == Cardinality({e.missions[i].mission_id : i \in 1..Len(e.missions)}) >= 1

\* len(unique_missions) >= 2
IsOverlap(e) == Cardinality({e.missions[i].mission_id : i \in 1..Len(e.missions)}) >= 2

\* len(unique_domains) >= 2
CrossDomain(e) == Cardinality({e.missions[i].domain : i \in 1..Len(e.missions)}) >= 2

\* The sort key of a candidate compares lower: (-int(cross_domain), -len(missions)).
KeyBelow(a, b) ==
    \/ a.cross_domain /\ ~b.cross_domain
    \/ a.cross_domain = b.cross_domain /\ Len(a.missions) > Len(b.missions)

\* list.sort(key=...): ascending by key, equal keys in their former order.
SortedByKey(s) ==
    LET before(i) == {j \in 1..Len(s) :
                         \/ KeyBelow(s[j], s[i])
                         \/ ~KeyBelow(s[i], s[j]) /\ j < i}
    IN  [p \in 1..Len(s) |->
            s[CHOOSE i \in 1..Len(s) : Cardinality(before(i)) = p - 1]]

\* _find_overlaps(entity_map): the candidates, sorted, the first ten of them.
find_overlaps(entity_map) ==
    LET found == SelectSeq(entity_map, IsOverlap)
        overlaps == SortedByKey([i \in 1..Len(found) |->
                        [entity |-> found[i].entity,
                         missions |-> found[i].missions,
                         cross_domain |-> CrossDomain(found[i])]])
    IN  SubSeq(overlaps, 1, Min(Len(overlaps), MAX_OVERLAPS))

\* What the clustering LLM call can do, a JSON object in place of the list
\* included.
ClusterAnswers == CorrelateAnswers \cup {[n |-> 0, kind |-> "object"]}

\* No answer yet.
NoAnswer == [n |-> 0, kind |-> "none"]

\* What _llm_correlate returns for the LLM's answer: json.loads output as it
\* is, [] from the except branch.
LlmCorrelateReturns(ans) ==
    IF ans.kind = "object" THEN [shape |-> "object", clusters |-> <<>>]
    ELSE [shape |-> "list", clusters |-> llm_correlate(ans)]

\* Rows naming the entities lo..hi, one row each.
EntityRows(lo, hi) ==
    [i \in 1..(hi - lo + 1) |->
        Row("u" \o ToString(lo + i - 1), 0, FALSE, "VERIFIED", TRUE)]

\* The results of a Detection handed to correlate: more entities than the cap
\* keeps, the first of them in two rows, or the last of them in two rows.
EntityRowSets ==
    {EntityRows(1, MAX_OVERLAPS + 1),
     EntityRows(1, 1) \o EntityRows(1, 1),
     EntityRows(MAX_OVERLAPS + 1, MAX_OVERLAPS + 1)
        \o EntityRows(MAX_OVERLAPS + 1, MAX_OVERLAPS + 1)}

\* The k-th Detection of a list handed to correlate: of a mission with an id
\* of its own or the id of the first mission, the first one in the security
\* domain and the others in either domain.
DetectionsAt(k) ==
    {ScoredDetection([domain |-> dom, severity |-> "HIGH", keys |-> MissionKeys,
                      id |-> "m" \o ToString(id), depth |-> 0, parent |-> None],
                     rows) :
        dom \in (IF k = 1 THEN {"security"} ELSE {"security", "compliance"}),
        id \in {1, k}, rows \in EntityRowSets}

\* The lists of n Detections handed to correlate.
RECURSIVE DetectionListsOf(_)
DetectionListsOf(n) ==
    IF n = 0 THEN {<<>>}
    ELSE {Append(s, d) : s \in DetectionListsOf(n - 1), d \in DetectionsAt(n)}

\* The lists of Detections handed to correlate.
DetectionLists == UNION {DetectionListsOf(n) : n \in 1..MaxMissions}

\* -------------------------------------------------------------- narrative
NoNarrative == [present |-> FALSE, fixed |-> FALSE, overall_risk |-> 0,
                overall_severity |-> "LOW"]

\* The minimal Narrative of generate's except branch.
FixedNarrative == [present |-> TRUE, fixed |-> TRUE, overall_risk |-> 0,
                   overall_severity |-> "LOW"]

RECURSIVE SeqMax(_)
SeqMax(s) == IF Len(s) = 1 THEN s[1] ELSE Max(Head(s), SeqMax(Tail(s)))

RECURSIVE RemoveOne(_, _)
RemoveOne(s, x) ==
    IF s = <<>> THEN <<>>
    ELSE IF Head(s) = x THEN Tail(s) ELSE <<Head(s)>> \o RemoveOne(Tail(s), x)

\* sorted(s, reverse=True)[:k]
RECURSIVE TopK(_, _)
TopK(s, k) ==
    IF k = 0 \/ s = <<>> THEN <<>>
    ELSE <<SeqMax(s)>> \o TopK(RemoveOne(s, SeqMax(s)), k - 1)

NonZeroScores(detections) ==
    SelectSeq([i \in 1..Len(detections) |-> detections[i].risk_score],
              LAMBDA x : x # 0)

\* What the narrative LLM call can do: raise, answer text that is no JSON,
\* answer a JSON value that is no object, or answer a JSON object.
NarrativeAnswers == {"raise", "text", "list", "object"}

\* generate(detections, clusters, scan_metadata) given the LLM's answer.
generate(detections, ans) ==
    IF ans # "object" THEN FixedNarrative
    ELSE LET top == TopK(NonZeroScores(detections), 5)
             risk == IF top = <<>> THEN 0
                     ELSE RoundHalfEven(SumSeq(top), Max(Len(top), 1))
         IN  [present |-> TRUE, fixed |-> FALSE, overall_risk |-> risk,
              overall_severity |-> severity_from_score(risk)]

\* -------------------------------------------------------------- snapshots
Snapshot(status, phase, completed, total, plan, dets, clus, narr, err) ==
    [error |-> err, detections |-> dets, missions |-> plan, clusters |-> clus,
     status |-> status,
     phase |-> phase, progress |-> [total |-> total, completed |-> completed], narrative |-> narr]

\* No progress key in Redis: _read_progress returns None.
NoSnap == Snapshot("absent", "absent", 0, 0, <<>>, <<>>, <<>>, NoNarrative, None)

\* {**base, "phase": ...}: the snapshots of a scan that is under way.
RunningSnapshot(phase, completed, total, plan, dets, clus) ==
    Snapshot("running", phase, completed, total, plan, dets, clus, NoNarrative, None)

\* start_scan's seed and the first write of _run_scan_background.
SeedSnapshot == RunningSnapshot("brainstorming", 0, 0, <<>>, <<>>, <<>>)
\* A phase-2 snapshot whose counter is not moved.
ExecutingSnapshotWithoutCount(completed, total, plan, dets) ==
    RunningSnapshot("executing", 0, total, plan, dets, <<>>)

\* The snapshots of phase 2: before the tasks are created and after each result.
ExecutingSnapshot(completed, total, plan, dets) ==
    RunningSnapshot("executing", completed, total, plan, dets, <<>>)

\* A phase-3 snapshot that still names phase 2.
DeepDiveSnapshotNamedExecuting(completed, total, plan, dets) ==
    RunningSnapshot("executing", completed, total, plan, dets, <<>>)
\* A phase-3 snapshot whose total is the number of planned missions.
DeepDiveSnapshotWithPlannedTotal(completed, total, plan, dets) ==
    RunningSnapshot("deep_dive", completed, Len(plan), plan, dets, <<>>)

\* The snapshots of phase 3: on entry and after each follow-up result.
DeepDiveSnapshot(completed, total, plan, dets) ==
    RunningSnapshot("deep_dive", completed, total, plan, dets, <<>>)

\* The snapshot of phase 4, written before correlate() is called.
CorrelatingSnapshot(completed, total, plan, dets) ==
    RunningSnapshot("correlating", completed, total, plan, dets, <<>>)

\* The snapshot of phase 5, written before the narrative is generated.
BriefingSnapshot(completed, total, plan, dets, clus) ==
    RunningSnapshot("briefing", completed, total, plan, dets, clus)

\* A total that leaves the follow-ups out, and one that counts only them.
TotalWithoutFollowups(tot, followups) == tot
FollowupsAsTotal(tot, followups) == Len(followups)

\* total += len(followups)
TotalWithFollowups(tot, followups) == tot + Len(followups)

CompleteSnapshot(completed, total, plan, dets, clus, narr) ==
    Snapshot("complete", "complete", completed, total, plan, dets, clus, narr, None)
\* An except branch that reports phase error and leaves the status running.
FailedSnapshotStillRunning(msg) ==
    Snapshot("running", "error", 0, 0, <<>>, <<>>, <<>>, NoNarrative, msg)

\* The snapshot of the top-level except branch.
FailedSnapshot(msg) ==
    Snapshot("failed", "error", 0, 0, <<>>, <<>>, <<>>, NoNarrative, msg)

\* mission_plan: id and domain of each mission.
MissionPlan(ms) == [i \in 1..Len(ms) |-> [domain |-> ms[i].domain, id |-> ms[i].id]]

\* Building mission_plan reads m["id"], m["name"], m["domain"] of every mission;
\* a JSON object in place of the list makes it index a string.
PlanBuildRaises(ans, ms) ==
    \/ ans.kind = "object"
    \/ \E i \in 1..Len(ms) : ~({"id", "name", "domain"} \subseteq ms[i].keys)

\* -------------------------------------------------------------- the state
\* ------------------------------------------------------------ scan history
\* Scan ids are "scan-<start second>"; i stands for the i-th start second, so
\* the order of the ids is the order of sorted(glob("scan-*.json")).
MaxScans == 3
ScanIds == 1..MaxScans

\* ScanMemory.MAX_HISTORY, 50 in the source, scaled down.
MAX_HISTORY == 2

\* Most save_full_scan calls of one run: enough to go over the cap.
MaxSaves == MAX_HISTORY + 1

NoRecord == [present |-> FALSE]
NoIndex == [present |-> FALSE, entries |-> <<>>]

\* Values a result row can hold: JSON has strings, not datetimes.
StrValue == [type |-> "str", text |-> "2026-02-07 11:31:57"]
DatetimeValue == [type |-> "datetime", text |-> "2026-02-07 11:31:57"]

\* json.loads(json.dumps(v, default=str)) of a row value.
json_value(v) == IF v.type = "str" THEN v ELSE [type |-> "str", text |-> v.text]

json_detection(d) ==
    [d EXCEPT !.results = [i \in 1..Len(d.results) |->
                              [created_at |-> json_value(d.results[i].created_at)]]]

\* json.loads(json.dumps(data, default=str)) of a Scan Record.
json_record(data) ==
    [data EXCEPT !.detections = [i \in 1..Len(data.detections) |->
                                    json_detection(data.detections[i])]]

HistoryDetection(sev, risk, at) ==
    [severity |-> sev, results |-> <<[created_at |-> at]>>,
     risk_score |-> risk, mission_id |-> "m1"]

\* The detection list of the scan that started at second id: rows of
\* strings for the odd ones, rows with a datetime for the even ones.
ScanDetections(id) ==
    IF id % 2 = 1 THEN <<HistoryDetection("HIGH", 60, StrValue)>>
    ELSE <<HistoryDetection("CRITICAL", 80, DatetimeValue)>>

\* The stats save_full_scan computes.
SaveStats(dets, narr) ==
    LET crit == Cardinality({i \in 1..Len(dets) : dets[i].severity = "CRITICAL"})
        high == Cardinality({i \in 1..Len(dets) : dets[i].severity = "HIGH"})
        top == TopK([i \in 1..Len(dets) |-> dets[i].risk_score], 3)
        mean == RoundHalfEven(SumSeq(top), Max(Len(top), 1))
    IN  [overall_risk |-> IF narr.present /\ narr.overall_risk # 0
                          THEN narr.overall_risk ELSE mean,
         overall_severity |-> IF crit > 0 THEN "CRITICAL"
                              ELSE IF high > 0 THEN "HIGH" ELSE "LOW",
         total_missions |-> Len(dets), critical_count |-> crit,
         high_count |-> high]

\* The dict save_full_scan builds.
FullScanData(scan_id, ts, dets, clus, narr) ==
    [detections |-> dets, clusters |-> clus, present |-> TRUE,
     narrative |-> narr, scan_id |-> scan_id, timestamp |-> ts,
     stats |-> SaveStats(dets, narr)]

\* {"scan_id": ..., "timestamp": ..., **stats}
IndexEntry(data) ==
    [scan_id |-> data.scan_id, timestamp |-> data.timestamp, stats |-> data.stats]

\* index[-n:]
LastN(s, n) == SubSeq(s, Max(1, Len(s) - n + 1), Len(s))

StoredIds(fs) == {i \in ScanIds : fs[i].present}

\* _prune_old_scans: of the sorted file names all but the last MAX_HISTORY
\* are removed.
prune_old_scans(fs) ==
    [i \in ScanIds |->
        IF Cardinality({j \in StoredIds(fs) : j > i}) < MAX_HISTORY
        THEN fs[i] ELSE NoRecord]

\* The entries in the order they were in.
KeepOrder(s) == s

\* list.sort(key=timestamp, reverse=True): stable, newest first.
RECURSIVE SortNewestFirst(_)
SortNewestFirst(s) ==
    IF s = <<>> THEN <<>>
    ELSE LET m == CHOOSE i \in 1..Len(s) :
                      /\ \A j \in 1..Len(s) : s[j].timestamp <= s[i].timestamp
                      /\ \A j \in 1..(i - 1) : s[j].timestamp < s[i].timestamp
             rest == [j \in 1..(Len(s) - 1) |-> IF j < m THEN s[j] ELSE s[j + 1]]
         IN  <<s[m]>> \o SortNewestFirst(rest)

\* The index entries of the readable files, as the glob loop collects them.
RECURSIVE FileEntries(_, _)
FileEntries(fs, ids) ==
    IF ids = {} THEN <<>>
    ELSE LET i == CHOOSE x \in ids : \A y \in ids : x <= y
         IN  <<IndexEntry(fs[i])>> \o FileEntries(fs, ids \ {i})

NoGot == [id |-> 0, valid |-> FALSE, tier |-> "none", result |-> NoRecord,
          consistent |-> FALSE]
NoSeen == [id |-> 0, tier |-> "none", result |-> NoRecord, op |-> "none",
           listing |-> <<>>, written |-> NoRecord, prev |-> NoGot,
           redis |-> FALSE]

\* GET /scan has not been asked.
NoResponse == [detections |-> <<>>, status |-> "none", record |-> NoRecord,
               notified |-> 0]

\* ----------------------------------------------------------- scan requests
\* The clock runs in ticks of which TicksPerSecond make a second; scan ids
\* are written with strftime('%Y%m%dT%H%M%S'), which keeps whole seconds.
MaxTicks == 3
TicksPerSecond == 2
SecondOf(t) == t \div TicksPerSecond
Seconds == 0..SecondOf(MaxTicks)

\* A progress key or a record key nobody has written.
NoWriter == [last |-> 0, writers |-> {}]

\* The key after request k has written it.
WrittenBy(key, k) == [last |-> k, writers |-> key.writers \cup {k}]

\* ------------------------------------------------------ collaborator calls
NoCall == [fn |-> "none"]

\* Phase 6 not reached: no scan_memory call made.
NoPersistCalls == [record_scan |-> 0, save_full_scan |-> 0, disk |-> "none"]

\* The mission tasks whose logging is followed.
LogTasks == 1..3

\* _mission_log_buffer holding None, its default.
NoBuffer == 0

VARIABLES
    deepDiveEnabled,    \* settings.DEEP_DIVE_ENABLED
    correlationEnabled, \* settings.CORRELATION_ENABLED
    redisUp,            \* whether Redis answers
    stored,             \* value of the scan's progress key in Redis
    scanCache,          \* value of the scan's record key in Redis
    scanFile,           \* scan_history/<scan_id>.json
    pc,                 \* where _run_scan_background stands
    missions, all_results, completed, total,
    tasks, queue,
    deep_dive_missions, dd_tasks, dd_queue, dd_completed, ddIdx,
    clusters, narrative,
    last,               \* the data of the latest _update_progress call
    phases,             \* phases of all _update_progress calls so far
    faults,             \* what went wrong so far
    slack,              \* notification tasks spawned
    files,              \* scan_history/scan-*.json, by scan id
    cache,              \* Redis keys sentinel:scan:<scan_id>, by scan id
    index,              \* Redis key sentinel:scan_index
    clock,              \* datetime.utcnow() of the latest save_full_scan
    seen,               \* the scan_memory call that has just returned
    got,                \* the latest get_scan, if no save or listing came after it
    sync,               \* the answer of GET /scan (run_sentinel_scan)
    now,                \* datetime.utcnow(), in ticks
    requests,           \* the scans requested so far, with their scan_id
    progressWriters,    \* by progress key, the scans that wrote a snapshot under it
    recordWriters,      \* by scan_id, the scans that saved a Scan Record under it
    call,               \* the collaborator call that has just returned
    alerts,             \* how the latest notification task to finish ended
    history,            \* ScanMemory.history, the summaries held in memory
    memory_file,        \* sentinel_scan_history.json
    scan_history_key,   \* Redis key sentinel:scan_history
    running,            \* where each mission task stands in run_mission
    mission_log_buffer, \* _mission_log_buffer in each task's context
    log_buf,            \* the log_buf list each run_mission created
    persist_calls       \* the scan_memory calls phase 6 has made

vars == <<deepDiveEnabled, correlationEnabled, redisUp, stored, scanCache,
          scanFile, pc, missions, all_results, completed, total, tasks, queue,
          deep_dive_missions, dd_tasks, dd_queue, dd_completed, ddIdx,
          clusters, narrative, last, phases, faults, slack,
          files, cache, index, clock, seen, got, sync,
          now, requests, progressWriters, recordWriters, call, alerts,
          history, memory_file, scan_history_key,
          running, mission_log_buffer, log_buf, persist_calls>>

settingsVars == <<deepDiveEnabled, correlationEnabled>>
storeVars == <<redisUp, scanCache, scanFile>>
batchVars == <<missions, all_results, completed, total, tasks, queue>>
ddVars == <<deep_dive_missions, dd_tasks, dd_queue, dd_completed, ddIdx>>
historyVars == <<files, cache, index, clock, seen, got>>
syncVars == <<sync>>
requestVars == <<now, requests, progressWriters, recordWriters>>
detachedVars == <<alerts>>
memoryVars == <<history, memory_file, scan_history_key>>
logVars == <<running, mission_log_buffer, log_buf>>
persistVars == <<persist_calls>>
asideVars == <<detachedVars, memoryVars, logVars, persistVars>>
sideVars == <<requestVars, call, asideVars>>
scanVars == <<stored, scanCache, scanFile, pc, batchVars, ddVars, clusters,
              narrative, last, phases, faults, slack, syncVars>>
coreVars == <<settingsVars, redisUp, scanVars, historyVars, asideVars>>


Init ==
    /\ deepDiveEnabled \in BOOLEAN
    /\ correlationEnabled \in BOOLEAN
    /\ redisUp \in BOOLEAN
    /\ stored = NoSnap
    /\ scanCache = NoRecord
    /\ scanFile = NoRecord
    /\ pc = "idle"
    /\ missions = <<>> /\ all_results = <<>> /\ completed = 0 /\ total = 0
    /\ tasks = <<>> /\ queue = <<>>
    /\ deep_dive_missions = <<>> /\ dd_tasks = <<>> /\ dd_queue = <<>>
    /\ dd_completed = 0 /\ ddIdx = 0
    /\ clusters = <<>> /\ narrative = NoNarrative
    /\ last = NoSnap
    /\ phases = {}
    /\ faults = {}
    /\ slack = 0
    /\ files = [i \in ScanIds |-> NoRecord]
    /\ cache = [i \in ScanIds |-> NoRecord]
    /\ index = NoIndex
    /\ clock = 0
    /\ seen = NoSeen
    /\ got = NoGot
    /\ sync = NoResponse
    /\ now = 0
    /\ requests = <<>>
    /\ progressWriters = [id \in Seconds |-> NoWriter]
    /\ recordWriters = [id \in Seconds |-> NoWriter]
    /\ call = NoCall
    /\ alerts = "none"
    /\ history = <<>>
    /\ memory_file = <<>>
    /\ scan_history_key = <<>>
    /\ running = [t \in LogTasks |-> "created"]
    /\ mission_log_buffer = [t \in LogTasks |-> NoBuffer]
    /\ log_buf = [t \in LogTasks |-> <<>>]
    /\ persist_calls = NoPersistCalls

\* _update_progress(scan_id, data): r.set when Redis answers, nothing otherwise
\* (no client, or the write raises and is logged).
update_progress(data) ==
    /\ stored' = IF redisUp THEN data ELSE stored
    /\ last' = data
    /\ phases' = phases \cup {data.phase}

\* str(e) of the exception that reached the top-level except branch.
ExceptionMessage(fault) ==
    CASE fault = "planner_raise" -> "planner call raised"
      [] fault = "plan_shape" -> "mission_plan raised"
      [] OTHER -> "save_full_scan raised"

\* A top-level handler that logs and writes nothing.
FailWithoutSnapshot(fault) ==
    /\ pc' = "failed"
    /\ faults' = faults \cup {fault}
    /\ UNCHANGED <<stored, last, phases>>

\* The top-level except branch of _run_scan_background.
Fail(fault) ==
    /\ update_progress(FailedSnapshot(ExceptionMessage(fault)))
    /\ pc' = "failed"
    /\ faults' = faults \cup {fault}

\* start_scan: seed the progress key, create the background task, return.
start_scan ==
    /\ pc = "idle"
    /\ update_progress(SeedSnapshot)
    /\ pc' = "scheduled"
    /\ UNCHANGED <<settingsVars, sideVars, historyVars, syncVars, storeVars, batchVars, ddVars, clusters,
                   narrative, faults, slack>>

\* _run_scan_background up to its first await: the brainstorming snapshot, then
\* the planner is called.
bg_begin ==
    /\ pc = "scheduled"
    /\ update_progress(SeedSnapshot)
    /\ pc' = "planning"
    /\ UNCHANGED <<settingsVars, sideVars, historyVars, syncVars, storeVars, batchVars, ddVars, clusters,
                   narrative, faults, slack>>

PlannerFault(ans) ==
    IF ans.kind = "text" THEN {"planner_text"}
    ELSE IF ans.kind = "json" /\ ans.items = <<>> THEN {"planner_empty"}
    ELSE {}

\* The missions the scan runs for what the planner returned: the fallback
\* mission when the list is empty.
MissionsOrFallback(ms) == IF ms = <<>> THEN <<FallbackMission>> ELSE ms

\* The planner returns (or raises): fallback, mission_plan, the executing
\* snapshot, one task per mission, then the wait on the queue.
planner_returns ==
    /\ pc = "planning"
    /\ \E ans \in PlannerAnswers :
         LET ms == MissionsOrFallback(brainstorm_missions(ans)) IN
         IF BrainstormRaises(ans)
         THEN /\ Fail("planner_raise")
              /\ UNCHANGED <<batchVars>>
         ELSE IF PlanBuildRaises(ans, ms)
         THEN /\ Fail("plan_shape")
              /\ UNCHANGED <<batchVars>>
         ELSE /\ missions' = ms
              /\ total' = Len(ms)
              /\ completed' = 0
              /\ tasks' = [i \in 1..Len(ms) |-> "created"]
              /\ update_progress(ExecutingSnapshot(0, Len(ms), MissionPlan(ms), <<>>))
              /\ faults' = faults \cup PlannerFault(ans)
              /\ pc' = "fanin"
              /\ UNCHANGED <<all_results, queue>>
    /\ UNCHANGED <<settingsVars, sideVars, historyVars, syncVars, storeVars, ddVars,
                   clusters, narrative, slack>>

\* run_and_queue(m) of the first batch: run_mission, then queue.put.  A
\* mission run_mission raises on ends the task with nothing put.
mission_task(i) ==
    /\ i \in 1..Len(tasks)
    /\ tasks[i] = "created"
    /\ IF RunMissionRaises(missions[i])
       THEN /\ tasks' = [tasks EXCEPT ![i] = "raised"]
            /\ UNCHANGED queue
       ELSE \E qa \in QaOutcomes :
              /\ queue' = Append(queue, run_mission(missions[i], qa))
              /\ tasks' = [tasks EXCEPT ![i] = "done"]
    /\ UNCHANGED <<settingsVars, sideVars, historyVars, syncVars, storeVars, stored, pc, missions, all_results,
                   completed, total, ddVars, clusters, narrative, last, phases,
                   faults, slack>>
\* The first fan-in loop leaving after one completion (a loop that does not
\* wait for the whole batch).
fan_in_leaves_early ==
    /\ pc = "fanin"
    /\ completed < total
    /\ queue # <<>>
    /\ all_results' = Append(all_results, Head(queue))
    /\ queue' = Tail(queue)
    /\ completed' = completed + 1
    /\ slack' = slack + 1
    /\ update_progress(ExecutingSnapshot(completed + 1, total,
                                         MissionPlan(missions),
                                         Append(all_results, Head(queue))))
    /\ pc' = "gather"
    /\ UNCHANGED <<settingsVars, sideVars, historyVars, syncVars, storeVars, missions, total, tasks, ddVars,
                   clusters, narrative, faults>>

\* One turn of the first fan-in loop: queue.get, append, count, notify, write.
fan_in ==
    /\ pc = "fanin"
    /\ completed < total
    /\ queue # <<>>
    /\ all_results' = Append(all_results, Head(queue))
    /\ queue' = Tail(queue)
    /\ completed' = completed + 1
    /\ slack' = slack + 1
    /\ update_progress(ExecutingSnapshot(completed + 1, total,
                                         MissionPlan(missions),
                                         Append(all_results, Head(queue))))
    /\ pc' = IF completed + 1 < total THEN "fanin" ELSE "gather"
    /\ UNCHANGED <<settingsVars, sideVars, historyVars, syncVars, storeVars, missions, total, tasks, ddVars,
                   clusters, narrative, faults>>

\* asyncio.gather(*tasks, return_exceptions=True) returns once every task has
\* ended; then phase 3 starts: the deep_dive snapshot when deep dive is on.
gather ==
    /\ pc = "gather"
    /\ \A i \in 1..Len(tasks) : tasks[i] # "created"
    /\ IF deepDiveEnabled
       THEN /\ update_progress(DeepDiveSnapshot(completed, total,
                                             MissionPlan(missions), all_results))
            /\ ddIdx' = 1
            /\ pc' = "expand"
       ELSE /\ pc' = "phase4"
            /\ UNCHANGED <<stored, last, phases, ddIdx>>
    /\ UNCHANGED <<settingsVars, sideVars, historyVars, syncVars, storeVars, batchVars, deep_dive_missions,
                   dd_tasks, dd_queue, dd_completed, clusters, narrative,
                   faults, slack>>

\* One turn of "for res in list(all_results)": should_deep_dive, and the
\* follow-ups of a Detection that qualifies.
expand_one ==
    /\ pc = "expand"
    /\ ddIdx <= Len(all_results)
    /\ IF should_deep_dive(all_results[ddIdx])
       THEN \E ans \in FollowupAnswers :
              LET followups == generate_followups(all_results[ddIdx], 0, ans) IN
              /\ Len(missions) + Len(deep_dive_missions) + Len(followups)
                    <= MaxMissions
              /\ deep_dive_missions' = deep_dive_missions \o followups
              /\ total' = TotalWithFollowups(total, followups)
       ELSE UNCHANGED <<deep_dive_missions, total>>
    /\ ddIdx' = ddIdx + 1
    /\ UNCHANGED <<settingsVars, sideVars, historyVars, syncVars, storeVars, stored, pc, missions, all_results,
                   completed, tasks, queue, dd_tasks, dd_queue, dd_completed,
                   clusters, narrative, last, phases, faults, slack>>

\* After the loop: one task per follow-up mission, or straight to phase 4.
launch_deep_dive ==
    /\ pc = "expand"
    /\ ddIdx > Len(all_results)
    /\ IF deep_dive_missions # <<>>
       THEN /\ dd_tasks' = [i \in 1..Len(deep_dive_missions) |-> "created"]
            /\ pc' = "dd_fanin"
       ELSE /\ pc' = "phase4"
            /\ UNCHANGED dd_tasks
    /\ UNCHANGED <<settingsVars, sideVars, historyVars, syncVars, storeVars, stored, batchVars,
                   deep_dive_missions, dd_queue, dd_completed, ddIdx, clusters,
                   narrative, last, phases, faults, slack>>

\* run_dd(m): run_mission, then dd_queue.put.
dd_task(i) ==
    /\ i \in 1..Len(dd_tasks)
    /\ dd_tasks[i] = "created"
    /\ IF RunMissionRaises(deep_dive_missions[i])
       THEN /\ dd_tasks' = [dd_tasks EXCEPT ![i] = "raised"]
            /\ UNCHANGED dd_queue
       ELSE \E qa \in QaOutcomes :
              /\ dd_queue' = Append(dd_queue, run_mission(deep_dive_missions[i], qa))
              /\ dd_tasks' = [dd_tasks EXCEPT ![i] = "done"]
    /\ UNCHANGED <<settingsVars, sideVars, historyVars, syncVars, storeVars, stored, pc, batchVars,
                   deep_dive_missions, dd_completed, ddIdx, clusters, narrative,
                   last, phases, faults, slack>>

\* One turn of the deep-dive fan-in loop.
dd_fan_in ==
    /\ pc = "dd_fanin"
    /\ dd_completed < Len(deep_dive_missions)
    /\ dd_queue # <<>>
    /\ all_results' = Append(all_results, Head(dd_queue))
    /\ dd_queue' = Tail(dd_queue)
    /\ completed' = completed + 1
    /\ dd_completed' = dd_completed + 1
    /\ slack' = slack + 1
    /\ update_progress(DeepDiveSnapshot(completed + 1, total,
                                        MissionPlan(missions),
                                        Append(all_results, Head(dd_queue))))
    /\ pc' = IF dd_completed + 1 < Len(deep_dive_missions)
             THEN "dd_fanin" ELSE "dd_gather"
    /\ UNCHANGED <<settingsVars, sideVars, historyVars, syncVars, storeVars, missions, total, tasks, queue,
                   deep_dive_missions, dd_tasks, ddIdx, clusters, narrative,
                   faults>>

\* asyncio.gather(*dd_tasks, return_exceptions=True).
dd_gather ==
    /\ pc = "dd_gather"
    /\ \A i \in 1..Len(dd_tasks) : dd_tasks[i] # "created"
    /\ pc' = "phase4"
    /\ UNCHANGED <<settingsVars, sideVars, historyVars, syncVars, storeVars, stored, batchVars, ddVars,
                   clusters, narrative, last, phases, faults, slack>>

\* Phase 4: the correlating snapshot and correlate() up to its LLM call, which
\* is made only when some entity overlaps.
phase4 ==
    /\ pc = "phase4"
    /\ clusters' = <<>>
    /\ IF correlationEnabled
       THEN /\ update_progress(CorrelatingSnapshot(completed, total,
                                                MissionPlan(missions), all_results))
            /\ pc' = IF Overlaps(all_results) = {} THEN "phase5" ELSE "correlating"
       ELSE /\ pc' = "phase5"
            /\ UNCHANGED <<stored, last, phases>>
    /\ UNCHANGED <<settingsVars, sideVars, historyVars, syncVars, storeVars, batchVars, ddVars, narrative,
                   faults, slack>>

\* The clustering LLM call returns.
correlate_returns ==
    /\ pc = "correlating"
    /\ \E ans \in CorrelateAnswers : clusters' = llm_correlate(ans)
    /\ pc' = "phase5"
    /\ UNCHANGED <<settingsVars, sideVars, historyVars, syncVars, storeVars, stored, batchVars, ddVars,
                   narrative, last, phases, faults, slack>>

\* Phase 5: the briefing snapshot, then the narrative LLM is called.
phase5 ==
    /\ pc = "phase5"
    /\ update_progress(BriefingSnapshot(completed, total, MissionPlan(missions),
                                        all_results, clusters))
    /\ pc' = "narrating"
    /\ UNCHANGED <<settingsVars, sideVars, historyVars, syncVars, storeVars, batchVars, ddVars, clusters,
                   narrative, faults, slack>>

\* What the durable store does during save_full_scan: all works, the file
\* cannot be written (caught and logged), or os.makedirs raises (not caught).
DiskOutcomes == {"ok", "write_fails", "makedirs_raises"}

\* The Scan Record save_full_scan builds.
ScanRecord(dets, clus, narr) ==
    [detections |-> dets, clusters |-> clus, present |-> TRUE,
     narrative |-> narr, total_missions |-> Len(dets)]

\* A save that leaves the scan's file as it was.
scan_file_not_written(rec, disk) == scanFile

\* The file of the scan after save_full_scan: written, or as it was when the
\* write failed (caught and logged).
write_scan_file(rec, disk) == IF disk = "ok" THEN rec ELSE scanFile

\* The narrative LLM call returns; phase 6 follows with no await: record_scan,
\* save_full_scan, the complete snapshot.
narrative_returns ==
    /\ pc = "narrating"
    /\ \E ans \in NarrativeAnswers, disk \in DiskOutcomes :
         LET narr == generate(all_results, ans)
             rec == ScanRecord(all_results, clusters, narr) IN
         /\ narrative' = narr
         /\ slack' = slack + 1
         /\ persist_calls' = [record_scan |-> persist_calls.record_scan + 1,
                               save_full_scan |-> persist_calls.save_full_scan + 1,
                               disk |-> disk]
         /\ IF disk = "makedirs_raises"
            THEN /\ Fail("persist_raise")
                 /\ UNCHANGED <<scanFile, scanCache>>
            ELSE /\ scanFile' = write_scan_file(rec, disk)
                 /\ scanCache' = IF redisUp THEN rec ELSE scanCache
                 /\ update_progress(CompleteSnapshot(completed, total,
                                        MissionPlan(missions), all_results,
                                        clusters, narr))
                 /\ pc' = "done"
                 /\ UNCHANGED faults
    /\ UNCHANGED <<settingsVars, requestVars, call, detachedVars, memoryVars,
                   logVars, historyVars, syncVars, redisUp, batchVars, ddVars,
                   clusters>>

\* ------------------------------------------------------- the environment
\* _read_progress(scan_id)
read_progress == IF redisUp THEN stored ELSE NoSnap

\* scan_memory.get_scan(scan_id): Redis first, then the file.
get_scan ==
    IF redisUp /\ scanCache.present THEN scanCache ELSE scanFile

\* HTTPException(status_code=404, detail="Scan not found")
NotFound ==
    Snapshot("not_found", "error", 0, 0, <<>>, <<>>, <<>>, NoNarrative,
             "Scan not found")

\* A reshaped record that reports no progress.
RecordEnvelopeWithoutProgress(data) ==
    Snapshot("complete", "complete", 0, 0, <<>>, data.detections,
             data.clusters, data.narrative, None)

\* The Scan Record reshaped into the envelope of a snapshot.
RecordEnvelope(data) ==
    Snapshot("complete", "complete", data.total_missions, data.total_missions,
             <<>>, data.detections, data.clusters, data.narrative, None)

\* What get_scan_status answers now.
StatusResponse ==
    IF read_progress.status # "absent" THEN read_progress
    ELSE IF get_scan.present THEN RecordEnvelope(get_scan)
    ELSE NotFound

\* get_scan_status(scan_id): its only effect on the state is get_scan's
\* back-fill of the record key when the file served the read.
get_scan_status ==
    /\ pc # "idle"
    /\ scanCache' = IF /\ read_progress.status = "absent"
                       /\ ~(redisUp /\ scanCache.present)
                       /\ scanFile.present /\ redisUp
                    THEN scanFile ELSE scanCache
    /\ UNCHANGED <<settingsVars, sideVars, historyVars, syncVars, redisUp, stored, scanFile, pc, batchVars,
                   ddVars, clusters, narrative, last, phases, faults, slack>>

\* Every run_and_queue task of the first batch has ended.
FirstBatchEnded == \A i \in 1..Len(tasks) : tasks[i] # "created"

\* The Detections of the first batch that have been taken from the queue.
FirstBatchResults == SubSeq(all_results, 1, Min(Len(all_results), Len(missions)))

\* The orders in which a list of n results can be arranged.
Orders(n) == {f \in [1..n -> 1..n] : \A a, b \in 1..n : a # b => f[a] # f[b]}

\* results holds, for each mission in turn, a Detection run_mission returns
\* for that mission.
InMissionOrder(results) ==
    \A i \in 1..Len(missions) :
        \E qa \in QaOutcomes : run_mission(missions[i], qa) = results[i]

\* GET /scan, asked once the background scan has ended or cannot go on, with
\* the planner answering the same list and the question-answering graph doing
\* for each mission what it did in the background scan: fallback, one
\* run_mission per mission under asyncio.gather (the first exception of a
\* mission leaves gather and the handler), one notification per result,
\* record_scan, save_full_scan under an id of its own with no clusters and no
\* narrative, then the results in the order of the missions.
run_sentinel_scan ==
    /\ sync.status = "none"
    /\ Len(tasks) > 0 /\ FirstBatchEnded
    /\ \/ pc \in {"done", "failed"}
       \/ pc = "fanin" /\ queue = <<>>
    /\ IF \E i \in 1..Len(missions) : RunMissionRaises(missions[i])
       THEN sync' = [NoResponse EXCEPT !.status = "mission_raised"]
       ELSE \E disk \in DiskOutcomes, order \in Orders(Len(missions)) :
              LET results == [i \in 1..Len(missions) |->
                                 FirstBatchResults[order[i]]] IN
              /\ InMissionOrder(results)
              /\ sync' = IF disk = "makedirs_raises"
                         THEN [NoResponse EXCEPT !.status = "persist_raised",
                                                 !.notified = Len(results)]
                         ELSE [detections |-> results, status |-> "success",
                               record |-> ScanRecord(results, <<>>, NoNarrative),
                               notified |-> Len(results)]
    /\ UNCHANGED <<settingsVars, sideVars, historyVars, storeVars, stored, pc,
                   batchVars, ddVars, clusters, narrative, last, phases, faults,
                   slack>>

OrchestratorStep ==
    \/ bg_begin \/ planner_returns \/ fan_in \/ gather \/ expand_one
    \/ launch_deep_dive \/ dd_fan_in \/ dd_gather \/ phase4
    \/ correlate_returns \/ phase5 \/ narrative_returns

TaskStep ==
    \/ \E i \in 1..MaxMissions : mission_task(i)
    \/ \E i \in 1..MaxMissions : dd_task(i)

EnvStep == get_scan_status

Next == start_scan \/ OrchestratorStep \/ TaskStep \/ EnvStep

Spec == Init /\ [][Next]_vars

\* The event loop runs every coroutine that can run.
FairSpec == Spec /\ WF_vars(OrchestratorStep) /\ WF_vars(TaskStep)

\* The background scan, and GET /scan asked after it.
SyncNext == Next \/ run_sentinel_scan

SyncSpec == Init /\ [][SyncNext]_vars

\* ---------------------------------------------- scan_memory and its stores
\* A record key that keeps the stats and drops the findings.
save_stats_only_to_redis(c, id, data) ==
    IF redisUp
    THEN [c EXCEPT ![id] = [json_record(data) EXCEPT !.detections = <<>>]]
    ELSE c

\* _save_full_scan_to_redis(scan_id, data): r.set when Redis answers, nothing
\* otherwise (no client, or the write raises and is logged).
save_full_scan_to_redis(c, id, data) ==
    IF redisUp THEN [c EXCEPT ![id] = json_record(data)] ELSE c

\* _update_scan_index_in_redis(data)
update_scan_index_in_redis(ix, data) ==
    IF redisUp
    THEN [present |-> TRUE,
          entries |-> LastN(Append(ix.entries, IndexEntry(json_record(data))),
                            MAX_HISTORY)]
    ELSE ix

\* A back-fill that leaves the index key alone.
keep_scan_index(ix, scans) == ix

\* _backfill_scan_index_to_redis(scans)
backfill_scan_index_to_redis(ix, scans) ==
    IF redisUp THEN [present |-> TRUE, entries |-> scans] ELSE ix

\* save_full_scan(scan_id, detections, clusters, narrative), called when the
\* scan that started at second id ends.
save_full_scan(id, dets, narr, disk) ==
    /\ clock < MaxSaves
    /\ clock' = clock + 1
    /\ got' = NoGot
    /\ LET data == FullScanData(id, clock + 1, dets, <<>>, narr) IN
       IF disk = "makedirs_raises"
       THEN /\ seen' = [NoSeen EXCEPT !.op = "save_raised", !.id = id,
                                      !.written = data, !.redis = redisUp]
            /\ UNCHANGED <<files, cache, index>>
       ELSE /\ files' = prune_old_scans(IF disk = "ok"
                                        THEN [files EXCEPT ![id] = json_record(data)]
                                        ELSE files)
            /\ cache' = save_full_scan_to_redis(cache, id, data)
            /\ index' = update_scan_index_in_redis(index, data)
            /\ seen' = [NoSeen EXCEPT !.op = "save", !.id = id,
                                      !.tier = IF disk = "ok" THEN "file" ELSE "none",
                                      !.written = data, !.redis = redisUp]
    /\ UNCHANGED <<settingsVars, sideVars, redisUp, scanVars>>

\* Which tier serves get_scan(scan_id) now, and with what.
GetTier(id) ==
    IF redisUp /\ cache[id].present THEN "cache"
    ELSE IF files[id].present THEN "file" ELSE "none"

GetResult(id) ==
    CASE GetTier(id) = "cache" -> cache[id]
      [] GetTier(id) = "file" -> files[id]
      [] OTHER -> NoRecord

\* GET /history/{scan_id}: scan_memory.get_scan(scan_id), with its back-fill
\* of the record key when the file served the read.
get_scan_history(id) ==
    /\ seen' = [id |-> id, tier |-> GetTier(id), result |-> GetResult(id),
                op |-> "get", listing |-> <<>>,
                written |-> IF seen.op = "save" /\ seen.id = id
                            THEN seen.written ELSE NoRecord,
                prev |-> IF got.valid /\ got.id = id THEN got ELSE NoGot,
                redis |-> redisUp]
    /\ got' = [id |-> id, valid |-> TRUE, tier |-> GetTier(id),
               result |-> GetResult(id),
               consistent |-> /\ files[id].present
                              /\ cache[id].present => cache[id] = files[id]]
    /\ cache' = IF GetTier(id) = "file"
                THEN save_full_scan_to_redis(cache, id, files[id])
                ELSE cache
    /\ UNCHANGED <<settingsVars, sideVars, redisUp, scanVars, files, index, clock>>

\* What list_scans() returns now: the Redis index when the key is there, the
\* files otherwise ([] when the directory was never made).
ListFromIndex == redisUp /\ index.present

ListResult ==
    IF ListFromIndex THEN SortNewestFirst(index.entries)
    ELSE SortNewestFirst(FileEntries(files, StoredIds(files)))

\* GET /history: scan_memory.list_scans(), with its back-fill of the index
\* key when the files served the read.
list_scan_history ==
    /\ seen' = [NoSeen EXCEPT !.op = "list",
                              !.tier = IF ListFromIndex THEN "cache" ELSE "file",
                              !.listing = ListResult, !.redis = redisUp]
    /\ index' = IF ~ListFromIndex /\ clock > 0
                THEN backfill_scan_index_to_redis(index, ListResult)
                ELSE index
    /\ got' = NoGot
    /\ UNCHANGED <<settingsVars, sideVars, redisUp, scanVars, files, cache, clock>>

\* Redis stops answering; it answers again with the keys it had; a record
\* key reaches its time to live.
redis_down ==
    /\ redisUp
    /\ redisUp' = FALSE
    /\ seen' = NoSeen
    /\ UNCHANGED <<settingsVars, sideVars, scanVars, files, cache, index, clock, got>>

redis_up ==
    /\ ~redisUp
    /\ redisUp' = TRUE
    /\ seen' = NoSeen
    /\ UNCHANGED <<settingsVars, sideVars, scanVars, files, cache, index, clock, got>>

expire(id) ==
    /\ cache[id].present
    /\ cache' = [cache EXCEPT ![id] = NoRecord]
    /\ seen' = NoSeen
    /\ UNCHANGED <<settingsVars, sideVars, redisUp, scanVars, files, index, clock, got>>

HistoryInit == Init /\ deepDiveEnabled /\ correlationEnabled

HistoryNext ==
    \/ \E id \in ScanIds, disk \in DiskOutcomes :
          save_full_scan(id, ScanDetections(id),
                         generate(ScanDetections(id), "object"), disk)
    \/ \E id \in ScanIds : get_scan_history(id)
    \/ list_scan_history
    \/ redis_down
    \/ redis_up
    \/ \E id \in ScanIds : expire(id)

HistorySpec == HistoryInit /\ [][HistoryNext]_vars

\* ------------------------------------------------- scan ids and their keys
\* Time passes.
tick ==
    /\ now < MaxTicks
    /\ now' = now + 1
    /\ UNCHANGED <<coreVars, requests, progressWriters, recordWriters, call>>

\* POST /scan/start: the scan_id from utcnow(), the seed snapshot under the
\* scan's progress key, the background task.
scan_start_requested ==
    /\ Len(requests) < MaxScans
    /\ LET id == SecondOf(now)
           k == Len(requests) + 1 IN
       /\ requests' = Append(requests, [kind |-> "background", scan_id |-> id,
                                        state |-> "running"])
       /\ progressWriters' = [progressWriters EXCEPT
                                 ![id] = WrittenBy(progressWriters[id], k)]
    /\ UNCHANGED <<coreVars, now, recordWriters, call>>

\* _run_scan_background of request k writes a snapshot under its scan_id.
background_writes(k) ==
    /\ k \in 1..Len(requests)
    /\ requests[k].kind = "background" /\ requests[k].state = "running"
    /\ progressWriters[requests[k].scan_id].last # k
    /\ progressWriters' = [progressWriters EXCEPT ![requests[k].scan_id] =
                              WrittenBy(progressWriters[requests[k].scan_id], k)]
    /\ UNCHANGED <<coreVars, now, requests, recordWriters, call>>

\* _run_scan_background of request k reaches phase 6: save_full_scan under
\* its scan_id, then the complete snapshot.
background_saves(k) ==
    /\ k \in 1..Len(requests)
    /\ requests[k].kind = "background" /\ requests[k].state = "running"
    /\ requests' = [requests EXCEPT ![k].state = "saved"]
    /\ recordWriters' = [recordWriters EXCEPT ![requests[k].scan_id] =
                            WrittenBy(recordWriters[requests[k].scan_id], k)]
    /\ progressWriters' = [progressWriters EXCEPT ![requests[k].scan_id] =
                              WrittenBy(progressWriters[requests[k].scan_id], k)]
    /\ UNCHANGED <<coreVars, now, call>>

\* GET /scan reaches its save_full_scan: the scan_id from utcnow() at that
\* moment, and the record under it.
sync_scan_saves ==
    /\ Len(requests) < MaxScans
    /\ LET id == SecondOf(now)
           k == Len(requests) + 1 IN
       /\ requests' = Append(requests, [kind |-> "sync", scan_id |-> id,
                                        state |-> "saved"])
       /\ recordWriters' = [recordWriters EXCEPT
                               ![id] = WrittenBy(recordWriters[id], k)]
    /\ UNCHANGED <<coreVars, now, progressWriters, call>>

RequestInit == Init /\ deepDiveEnabled /\ correlationEnabled /\ redisUp

RequestNext ==
    \/ tick
    \/ scan_start_requested
    \/ \E k \in 1..MaxScans : background_writes(k)
    \/ \E k \in 1..MaxScans : background_saves(k)
    \/ sync_scan_saves

RequestSpec == RequestInit /\ [][RequestNext]_vars
\* ------------------------------------------------- correlate, call by call
\* correlation_engine.correlate(all_detections) is called: the entity map,
\* the overlaps, and the return of [] when there is none; otherwise the LLM
\* is asked.
call_correlate ==
    /\ call = NoCall
    /\ \E detections \in DetectionLists :
         LET entity_map == build_entity_map(detections)
             overlapping == find_overlaps(entity_map) IN
         call' = [detections |-> detections,
                  entity_map |-> entity_map, overlaps |-> overlapping,
                  shape |-> "list", clusters |-> <<>>,
                  fn |-> IF overlapping = <<>> THEN "correlate" ELSE "_llm_correlate",
                  answer |-> NoAnswer, asked |-> overlapping # <<>>]
    /\ UNCHANGED <<coreVars, requestVars>>

\* The clustering LLM answers and correlate returns what _llm_correlate returns.
llm_correlate_returns ==
    /\ call.fn = "_llm_correlate"
    /\ \E ans \in ClusterAnswers :
         call' = [call EXCEPT !.fn = "correlate", !.answer = ans,
                              !.shape = LlmCorrelateReturns(ans).shape,
                              !.clusters = LlmCorrelateReturns(ans).clusters]
    /\ UNCHANGED <<coreVars, requestVars>>
\* The overall_risk values the narrative LLM may put in its JSON object.
ProposedRisks == {0, 50, 100}

\* The Detection lists generate is called with: one Detection per mission,
\* each with no rows, low-risk rows or high-risk rows.
ScoredLists ==
    UNION {[1..n -> {ScoredDetection(FallbackMission, rows) :
                        rows \in {EmptyRows, LowRows, HighRows}}] :
              n \in 1..MaxMissions}

\* json.loads(text) of an answer that is an object proposing an overall_risk.
ProposedNarrative(proposed) ==
    [present |-> TRUE, fixed |-> FALSE, overall_risk |-> proposed,
     overall_severity |-> severity_from_score(proposed)]

\* result["overall_risk"] = overall_risk; result["overall_severity"] = ...:
\* the keys are assigned whatever the object held.
AssignRisk(result, detections) ==
    [result EXCEPT !.overall_risk = generate(detections, "object").overall_risk,
                   !.overall_severity = generate(detections, "object").overall_severity]

\* narrative_generator.generate(detections, clusters, scan_metadata) is called
\* and the LLM answers an object that proposes an overall_risk.
call_generate ==
    /\ call = NoCall
    /\ \E detections \in ScoredLists, proposed \in ProposedRisks :
         call' = [detections |-> detections, narrative |-> AssignRisk(ProposedNarrative(proposed), detections),
                  fn |-> "generate",
                  proposed |-> proposed]
    /\ UNCHANGED <<coreVars, requestVars>>
\* What correlate can hand to phase 6 as the clusters: [] or a list of
\* clusters, a non-empty JSON object, or None when the LLM answered null.
CorrelateReturns ==
    {LlmCorrelateReturns(ans) : ans \in ClusterAnswers}
        \cup {[shape |-> "null", clusters |-> <<>>]}

\* clusters or []
clusters_or_empty(clus) ==
    IF clus.shape = "null" \/ (clus.shape = "list" /\ clus.clusters = <<>>)
    THEN [shape |-> "list", clusters |-> <<>>]
    ELSE clus

\* Phase 6 for the Detections, clusters and narrative of a scan:
\* save_full_scan's record and the complete snapshot.
call_phase6 ==
    /\ call = NoCall
    /\ \E detections \in ScoredLists, clus \in CorrelateReturns,
          ans \in NarrativeAnswers :
         call' = [record |-> ScanRecord(detections, clusters_or_empty(clus),
                                        generate(detections, ans)),
                  fn |-> "phase6",
                  snapshot |-> CompleteSnapshot(Len(detections), Len(detections),
                                   MissionPlan([i \in 1..Len(detections) |->
                                                   FallbackMission]),
                                   detections, clus, generate(detections, ans))]
    /\ UNCHANGED <<coreVars, requestVars>>

\* get_scan_status once the progress key has expired (_PROGRESS_TTL): the
\* envelope built from the record.
status_after_expiry ==
    /\ call.fn = "phase6"
    /\ call' = [fn |-> "get_scan_status", snapshot |-> call.snapshot,
                envelope |-> RecordEnvelope(call.record)]
    /\ UNCHANGED <<coreVars, requestVars>>

CallInit == Init /\ deepDiveEnabled /\ correlationEnabled /\ redisUp

CallNext ==
    \/ call_correlate \/ llm_correlate_returns \/ call_generate
    \/ call_phase6 \/ status_after_expiry

CallSpec == CallInit /\ [][CallNext]_vars
\* ------------------------------------------------------- summary history
\* The scans recorded in one run of the summary history.
MaxRecorded == 6

\* The domains get_adaptive_context weighs.
WeighedDomains == {"security", "compliance", "risk", "operations"}

\* What record_scan reads of a Detection. Queries and names are numbered;
\* query 0 is a Detection without original_query (read as "").
Finding(n, domain, risk_score, severity) ==
    [domain |-> domain, severity |-> severity, risk_score |-> risk_score,
     data_count |-> 1, mission_name |-> n, original_query |-> n]

\* Three detection lists of six Detections each: 17 distinct queries in all.
ScanInputs ==
    { << Finding(1, "security", 20, "LOW"), Finding(2, "security", 20, "LOW"),
         Finding(3, "compliance", 60, "HIGH"), Finding(4, "risk", 100, "CRITICAL"),
         Finding(5, "risk", 100, "CRITICAL"), Finding(6, "operations", 0, "LOW") >>,
      << Finding(7, "security", 100, "CRITICAL"), Finding(8, "compliance", 15, "LOW"),
         Finding(9, "compliance", 20, "LOW"), Finding(10, "risk", 45, "MEDIUM"),
         Finding(11, "risk", 60, "HIGH"), Finding(12, "operations", 20, "LOW") >>,
      << Finding(13, "security", 60, "HIGH"), Finding(14, "security", 61, "HIGH"),
         Finding(15, "general", 90, "CRITICAL"), Finding(16, "general", 10, "LOW"),
         Finding(17, "operations", 75, "CRITICAL"), Finding(0, "operations", 0, "MEDIUM") >> }

\* The risk scores of the Detections of one domain, in order.
ScoresOf(detections, d) ==
    LET of_d == SelectSeq(detections, LAMBDA det : det.domain = d)
    IN  [i \in 1..Len(of_d) |-> of_d[i].risk_score]

\* The summary record_scan appends (its timestamp left out).
scan_record(detections) ==
    [missions |-> [i \in 1..Len(detections) |->
                     [domain |-> detections[i].domain,
                      severity |-> detections[i].severity,
                      risk_score |-> detections[i].risk_score,
                      data_count |-> detections[i].data_count,
                      name |-> detections[i].mission_name,
                      query |-> detections[i].original_query]],
     domain_scores |-> [d \in {detections[i].domain : i \in 1..Len(detections)} |->
                          RoundHalfEven(SumSeq(ScoresOf(detections, d)),
                                        Len(ScoresOf(detections, d)))],
     critical_domains |-> FirstOccurrences(
          [i \in 1..Len(SelectSeq(detections, LAMBDA det : det.severity = "CRITICAL")) |->
              SelectSeq(detections, LAMBDA det : det.severity = "CRITICAL")[i].domain])]

\* ScanMemory.record_scan: append to self.history, then _save writes
\* self.history[-MAX_HISTORY:] to the file (an error is caught and logged)
\* and to Redis when it answers. self.history itself is not trimmed.
record_scan ==
    /\ Len(history) < MaxRecorded
    /\ \E detections \in ScanInputs, written \in BOOLEAN :
         LET trimmed == LastN(Append(history, scan_record(detections)),
                              MAX_HISTORY) IN
         /\ history' = Append(history, scan_record(detections))
         /\ memory_file' = IF written THEN trimmed ELSE memory_file
         /\ scan_history_key' = IF redisUp THEN trimmed ELSE scan_history_key
         /\ call' = [written |-> written, fn |-> "record_scan"]
    /\ UNCHANGED <<settingsVars, redisUp, scanVars, historyVars, requestVars,
                   detachedVars, logVars, persistVars>>

\* ScanMemory.__init__ in a new process: _load reads Redis, else the file,
\* which it copies to Redis.
load ==
    /\ history' = IF redisUp /\ scan_history_key # <<>> THEN scan_history_key
                  ELSE memory_file
    /\ scan_history_key' = IF redisUp /\ scan_history_key = <<>>
                           THEN memory_file ELSE scan_history_key
    /\ call' = [fn |-> "_load"]
    /\ UNCHANGED <<settingsVars, redisUp, scanVars, historyVars, requestVars,
                   detachedVars, logVars, memory_file, persistVars>>

\* The sum and the number of the per-scan averages of domain d in scans.
DomainSum(scans, d) ==
    SumSeq([i \in 1..Len(scans) |->
              IF d \in DOMAIN scans[i].domain_scores
              THEN scans[i].domain_scores[d] ELSE 0])

DomainCount(scans, d) ==
    Cardinality({i \in 1..Len(scans) : d \in DOMAIN scans[i].domain_scores})

\* min(4, max(1, round(2 + avg / 40))) with avg = sum / max(count, 1).
domain_weight(sum, count) ==
    Min(4, Max(1, RoundHalfEven(80 * Max(count, 1) + sum, 40 * Max(count, 1))))

\* The non-empty queries of the missions of scans, first occurrences only.
recent_queries(scans) ==
    FirstOccurrences(SelectSeq(
        Flatten([i \in 1..Len(scans) |->
                   [j \in 1..Len(scans[i].missions) |->
                      scans[i].missions[j].query]]),
        LAMBDA q : q # 0))

\* One focus text per CRITICAL mission of the scan: its domain, name and
\* risk score.
focus_areas(scan) ==
    LET crit == SelectSeq(scan.missions, LAMBDA m : m.severity = "CRITICAL")
    IN  [i \in 1..Len(crit) |->
           [domain |-> crit[i].domain, risk_score |-> crit[i].risk_score,
            name |-> crit[i].name]]

\* Weights, queries and focus areas taken from every summary held.
adaptive_context_of_whole_history(h) ==
    [focus_areas |-> Flatten([i \in 1..Len(h) |-> focus_areas(h[i])]),
     domain_weights |-> [d \in WeighedDomains |->
                           domain_weight(DomainSum(h, d), DomainCount(h, d))],
     avoid_queries |-> recent_queries(h),
     scan_count |-> Len(h)]

\* ScanMemory.get_adaptive_context on self.history = h.
adaptive_context(h) ==
    IF h = <<>>
    THEN [focus_areas |-> <<>>,
          domain_weights |-> [d \in WeighedDomains |-> 2], avoid_queries |-> <<>>, scan_count |-> 0]
    ELSE LET recent == LastN(h, 5) IN
         [focus_areas |-> focus_areas(recent[Len(recent)]),
          domain_weights |-> [d \in WeighedDomains |->
                                domain_weight(DomainSum(recent, d),
                                              DomainCount(recent, d))],
          avoid_queries |-> LastN(recent_queries(LastN(recent, 3)), 15),
          scan_count |-> Len(h)]

get_adaptive_context ==
    /\ call' = [fn |-> "get_adaptive_context", context |-> adaptive_context(history)]
    /\ UNCHANGED <<settingsVars, redisUp, scanVars, historyVars, requestVars,
                   detachedVars, logVars, memoryVars, persistVars>>

MemoryInit == Init /\ deepDiveEnabled /\ correlationEnabled

MemoryNext == record_scan \/ load \/ get_adaptive_context

MemorySpec == MemoryInit /\ [][MemoryNext]_vars
\* ------------------------------------------------------ per-mission logs
\* The log entries followed per buffer.
MaxEntries == 2

\* Logging touches nothing else.
LogFrame ==
    UNCHANGED <<settingsVars, redisUp, scanVars, historyVars, requestVars,
                call, detachedVars, memoryVars, persistVars>>

\* MissionLogHandler.emit in the context of task t: the record goes to the
\* list the task's _mission_log_buffer holds, or nowhere when it holds None.
emit_in(t) ==
    IF mission_log_buffer[t] = NoBuffer THEN log_buf
    ELSE [log_buf EXCEPT ![mission_log_buffer[t]] =
             Append(@, [at |-> running[t], by |-> t])]

\* run_mission up to its first await: log_buf = [], _mission_log_buffer.set,
\* then initial_state, which raises KeyError out of the function when the
\* mission has no "query" or "domain"; the try starts after it.
run_mission_begins(t) ==
    /\ running[t] = "created"
    /\ mission_log_buffer' = [mission_log_buffer EXCEPT ![t] = t]
    /\ \E m \in {FallbackMission, [FallbackMission EXCEPT !.keys = @ \ {"query"}]} :
         running' = [running EXCEPT ![t] = IF RunMissionRaises(m) THEN "raised"
                                            ELSE "in_try"]
    /\ UNCHANGED log_buf
    /\ LogFrame

\* Code running in task t logs a record (the graph's nodes during
\* run_mission, run_and_queue after it).
emit(t) ==
    /\ running[t] \in {"in_try", "returned"}
    /\ Len(log_buf[t]) < MaxEntries
    /\ log_buf' = emit_in(t)
    /\ UNCHANGED <<running, mission_log_buffer>>
    /\ LogFrame

\* The graph or the scorer raises: the except branch logs the failure.
mission_fails(t) ==
    /\ running[t] = "in_try"
    /\ running' = [running EXCEPT ![t] = "in_except"]
    /\ log_buf' = IF Len(log_buf[t]) < MaxEntries THEN emit_in(t) ELSE log_buf
    /\ UNCHANGED mission_log_buffer
    /\ LogFrame

\* return of either Detection, through finally: _mission_log_buffer.set(None).
run_mission_returns(t) ==
    /\ running[t] \in {"in_try", "in_except"}
    /\ running' = [running EXCEPT ![t] = "returned"]
    /\ mission_log_buffer' = [mission_log_buffer EXCEPT ![t] = NoBuffer]
    /\ UNCHANGED log_buf
    /\ LogFrame

LogNext ==
    \/ \E t \in LogTasks : run_mission_begins(t)
    \/ \E t \in LogTasks : emit(t)
    \/ \E t \in LogTasks : mission_fails(t)
    \/ \E t \in LogTasks : run_mission_returns(t)

LogInit == Init /\ deepDiveEnabled /\ correlationEnabled /\ redisUp

LogSpec == LogInit /\ [][LogNext]_vars

\* ------------------------------------------------------------- the claims
Terminal == last.status \in {"complete", "failed"}

\* An exception reached the top-level except branch.
ExceptionEscaped ==
    faults \cap {"planner_raise", "plan_shape", "persist_raise"} # {}

\* brainstorm_missions returned [].
PlannerReturnedEmpty == faults \cap {"planner_empty", "planner_text"} # {}

\* C1: under fair scheduling every scan that was started eventually has a
\* snapshot with status complete or failed written; no fan-in loop waits for
\* ever.
C1_ScanReachesTerminalSnapshot == (pc # "idle") ~> Terminal

\* C2: once an exception has escaped a step of _run_scan_background, the last
\* snapshot written is status failed, phase error, with the exception's
\* message, and no complete snapshot was written.
C2_EscapedExceptionGivesFailedSnapshot ==
    ExceptionEscaped =>
        /\ last.status = "failed"
        /\ last.phase = "error"
        /\ \E f \in faults : last.error = ExceptionMessage(f)
        /\ "complete" \notin phases
        /\ redisUp => stored = last

C2_Witness ==
    /\ pc = "failed"
    /\ "persist_raise" \in faults
    /\ "deep_dive" \in phases

\* C3: in a complete snapshot the number of detections equals progress.total
\* (planned missions plus follow-ups) and progress.completed.
C3_CompleteCountsAgree ==
    last.status = "complete" =>
        /\ Len(last.detections) = last.progress.total
        /\ Len(last.detections) = last.progress.completed
        /\ last.progress.total = Len(missions) + Len(deep_dive_missions)

C3_Witness == last.status = "complete" /\ Len(deep_dive_missions) = 2

PhaseRank(p) ==
    CASE p = "brainstorming" -> 1
      [] p = "executing" -> 2
      [] p = "deep_dive" -> 3
      [] p = "correlating" -> 4
      [] p = "briefing" -> 5
      [] p = "complete" -> 6
      [] OTHER -> 7

\* The phase whose work the orchestrator is doing (or waiting for) at pc.
C5_WorkUnderItsPhase ==
    /\ pc = "planning" => last.phase = "brainstorming"
    /\ pc \in {"fanin", "gather"} => last.phase = "executing"
    /\ (\E i \in 1..Len(tasks) : tasks[i] # "created") => "executing" \in phases
    /\ pc \in {"expand", "dd_fanin", "dd_gather"} => last.phase = "deep_dive"
    /\ pc = "correlating" => last.phase = "correlating"
    /\ pc = "narrating" => last.phase = "briefing"
    /\ "deep_dive" \in phases => deepDiveEnabled
    /\ "correlating" \in phases => correlationEnabled
    /\ last.status # "absent" => (last.phase = "error") = (last.status = "failed")

C5_PhaseStep ==
    last.status # "absent" =>
        /\ last.phase \in {"complete", "error"} => last' = last
        /\ last'.phase # "error" => PhaseRank(last'.phase) >= PhaseRank(last.phase)

\* C5: the phases of successive snapshots follow brainstorming, executing,
\* deep_dive, correlating, briefing, complete and never go back; deep_dive and
\* correlating appear only when enabled; a phase's snapshot is written before
\* its work starts; error (status failed) is the only other phase and is last.
C5_PhasesInOrder == []C5_WorkUnderItsPhase /\ [][C5_PhaseStep]_vars

C5_Witness ==
    /\ last.status = "complete"
    /\ phases = {"brainstorming", "executing", "deep_dive", "correlating",
                 "briefing", "complete"}

\* C6: from the moment start_scan has returned a poll returns a snapshot of
\* the scan (the seed first), never not-found, whatever the store's state.
C6_SeedAlwaysPollable ==
    pc # "idle" =>
        /\ StatusResponse.status # "not_found"
        /\ pc = "scheduled" => read_progress = SeedSnapshot

\* C7: when the planner returns an empty list the scan runs exactly the one
\* fallback mission (security, HIGH; total 1 in the executing snapshot) and
\* reaches a complete snapshot.
C7_EmptyPlanRunsFallbackToComplete ==
    /\ [](PlannerReturnedEmpty =>
            /\ missions = <<FallbackMission>>
            /\ missions[1].domain = "security" /\ missions[1].severity = "HIGH"
            /\ last.phase = "executing" => last.progress.total = 1)
    /\ (PlannerReturnedEmpty ~> last.status = "complete")

\* C8: run_mission never raises, whatever mission the orchestrator hands it.
C8_RunMissionNeverRaises ==
    /\ \A i \in 1..Len(tasks) : tasks[i] # "raised"
    /\ \A i \in 1..Len(dd_tasks) : dd_tasks[i] # "raised"

\* The mission of the scan with the given id.
MissionsById(id) == {m \in SeqSet(missions \o deep_dive_missions) : m.id = id}

DegradedAsClaimed(d) ==
    d.error # None =>
        /\ d.risk_score = 0
        /\ d.results = <<>>
        /\ \A m \in MissionsById(d.mission_id) : d.severity = SeverityOr(m, "MEDIUM")

\* A fan-in loop that waits on an empty queue after all its tasks have ended.
FirstBatchStuck ==
    pc = "fanin" /\ queue = <<>> /\ \A i \in 1..Len(tasks) : tasks[i] # "created"
DeepDiveBatchStuck ==
    pc = "dd_fanin" /\ dd_queue = <<>>
    /\ \A i \in 1..Len(dd_tasks) : dd_tasks[i] # "created"

\* C9: a mission whose question-answering call failed yields a Detection with
\* error set, risk_score 0, no results and the mission's severity hint, and its
\* batch still finishes with a Detection for every other mission.
C9_FailedMissionDoesNotStopBatch ==
    /\ \A d \in SeqSet(all_results \o queue \o dd_queue) : DegradedAsClaimed(d)
    /\ (\E d \in SeqSet(all_results \o queue \o dd_queue) : d.error # None) =>
          /\ ~FirstBatchStuck
          /\ ~DeepDiveBatchStuck
          /\ pc \notin {"idle", "scheduled", "planning", "fanin", "failed"} =>
                \A i \in 1..Len(missions) :
                    \E d \in SeqSet(all_results) : d.mission_id = missions[i].id

\* C10: a failing LLM collaborator (a raised error, or output of the wrong
\* shape) never makes the scan end in status failed.
C10_CollaboratorFailureNeverFailsScan ==
    last.status = "failed" =>
        last.error \notin {ExceptionMessage("planner_raise"),
                           ExceptionMessage("plan_shape")}

C12_MissionIdsUnique ==
    /\ \A i, j \in 1..Len(missions \o deep_dive_missions) :
          LET ms == missions \o deep_dive_missions IN
          i # j => ms[i].id # ms[j].id
    /\ \A i, j \in 1..Len(all_results) :
          i # j => all_results[i].mission_id # all_results[j].mission_id

\* C13: a get_scan that follows the save_full_scan of the same scan and is
\* served by either tier returns the stats, detections, clusters and
\* narrative that were handed to the save.
C13_SavedRecordReadsBackTheSame ==
    (seen.op = "get" /\ seen.written.present /\ seen.result.present) =>
        /\ seen.result.stats = seen.written.stats
        /\ seen.result.detections = seen.written.detections
        /\ seen.result.clusters = seen.written.clusters
        /\ seen.result.narrative = seen.written.narrative

\* C14 as claimed: two get_scan calls for a scan with no save in between
\* return the same, whatever expiry, outage or recovery of the cache happens
\* between them.
C14_ConsecutiveReadsIdentical ==
    (seen.op = "get" /\ seen.prev.valid) => seen.result = seen.prev.result

\* C14 amended: they return the same whenever, at the first call, the durable
\* file held the scan and the cache entry, if there was one, held the same
\* record as the file.
C14_ConsecutiveReadsIdenticalWhenTiersAgree ==
    (seen.op = "get" /\ seen.prev.valid /\ seen.prev.consistent) =>
        seen.result = seen.prev.result

C14_Witness ==
    /\ seen.op = "get" /\ seen.prev.valid /\ seen.prev.consistent
    /\ seen.prev.tier = "file" /\ seen.tier = "cache"
    /\ seen.result.present

\* The entries of a listing are those of the files: one per stored scan, with
\* the file's timestamp and stats.
ListingOfFiles(listing) ==
    /\ Len(listing) = Cardinality(StoredIds(files))
    /\ \A i \in StoredIds(files) :
          \E k \in 1..Len(listing) : listing[k] = IndexEntry(files[i])

\* C15: with the cache unavailable get_scan and list_scans return what the
\* files hold; with the cache available a read served by the files writes
\* what it returns into the cache, and the next read is served by the cache
\* with the same value.
C15_FallbackReadsAndBackfill ==
    /\ (seen.op = "get" /\ ~seen.redis) => seen.result = files[seen.id]
    /\ (seen.op = "list" /\ ~seen.redis) => ListingOfFiles(seen.listing)
    /\ (seen.op = "get" /\ seen.redis /\ seen.tier = "file") =>
          /\ cache[seen.id] = seen.result
          /\ GetTier(seen.id) = "cache"
          /\ GetResult(seen.id) = seen.result
    /\ (seen.op = "list" /\ seen.redis /\ seen.tier = "file") =>
          /\ ListingOfFiles(seen.listing)
          /\ clock > 0 => ListFromIndex /\ index.entries = seen.listing
          /\ ListResult = seen.listing

C15_Witness ==
    /\ seen.op = "list" /\ seen.redis /\ seen.tier = "file"
    /\ Len(seen.listing) = 2
    /\ \E i \in ScanIds : files[i].present /\ ~cache[i].present

\* C16: whatever saves, outages and recoveries came before, list_scans
\* returns exactly one entry for every scan stored in the files, and each
\* entry of a stored scan carries the stats of its record.
C16_ListingCoversStoredScans ==
    seen.op = "list" =>
        /\ \A i \in StoredIds(files) :
              Cardinality({k \in 1..Len(seen.listing) :
                              seen.listing[k].scan_id = i}) = 1
        /\ \A k \in 1..Len(seen.listing) :
              files[seen.listing[k].scan_id].present =>
                  seen.listing[k].stats = files[seen.listing[k].scan_id].stats

\* C17: get_scan finds a scan whenever its cache entry or its file is
\* readable, and save_full_scan writes the cache entry whenever Redis
\* answers, whatever the durable store did.
C17_OneTierIsEnough ==
    /\ (seen.op = "get" /\ (files[seen.id].present
                            \/ (redisUp /\ cache[seen.id].present))) =>
          seen.result.present
    /\ (seen.op \in {"save", "save_raised"} /\ seen.redis) =>
          cache[seen.id] = json_record(seen.written)

C18_WithinCap ==
    /\ Cardinality(StoredIds(files)) <= MAX_HISTORY
    /\ Len(index.entries) <= MAX_HISTORY

C18_SaveDropsOldest ==
    seen'.op = "save" =>
        /\ \A i \in (StoredIds(files)
                     \cup (IF seen'.tier = "file" THEN {seen'.id} ELSE {}))
                        \ StoredIds(files') :
              \A k \in StoredIds(files') : i < k
        /\ seen'.redis =>
              \A e \in SeqSet(index.entries) \ SeqSet(index'.entries) :
                  \A k \in SeqSet(index'.entries) : e.timestamp < k.timestamp

\* C18: the files and the index never hold more than MAX_HISTORY scans, and
\* what a save removes from either is older than everything it keeps (files
\* by the start second in the scan id, index entries by timestamp).
C18_HistoryCappedOldestFirst == []C18_WithinCap /\ [][C18_SaveDropsOldest]_vars

\* C19: list_scans returns its entries from the newest timestamp to the
\* oldest, whichever tier serves it, and [] before any save.
C19_ListingNewestFirst ==
    seen.op = "list" =>
        /\ \A i, j \in 1..Len(seen.listing) :
              i < j => seen.listing[i].timestamp > seen.listing[j].timestamp
        /\ clock = 0 => seen.listing = <<>>

C19_Witness ==
    /\ seen.op = "list" /\ seen.tier = "cache"
    /\ Len(seen.listing) = 2
    /\ index.entries # seen.listing

\* C20: get_scan_status answers the stored Progress Snapshot when Redis
\* holds one; otherwise, when the scan's record exists, the record as an envelope
\* with status and phase complete, completed = total = total_missions and the
\* record's detections, clusters and narrative; otherwise not-found.  An
\* envelope's status is running, complete or failed.
C20_StatusAnswer ==
    pc # "idle" =>
        LET tracked == redisUp /\ stored.status # "absent"
            cached == redisUp /\ scanCache.present IN
        /\ tracked => StatusResponse = stored
        /\ (~tracked /\ ~cached /\ scanFile.present) =>
              /\ StatusResponse.status = "complete"
              /\ StatusResponse.phase = "complete"
              /\ StatusResponse.progress.completed = Len(scanFile.detections)
              /\ StatusResponse.progress.total = scanFile.total_missions
              /\ StatusResponse.detections = scanFile.detections
              /\ StatusResponse.clusters = scanFile.clusters
              /\ StatusResponse.narrative = scanFile.narrative
        /\ (~tracked /\ ~cached /\ ~scanFile.present) => StatusResponse = NotFound
        /\ StatusResponse # NotFound =>
              StatusResponse.status \in {"running", "complete", "failed"}

C20_Witness ==
    /\ stored.status = "absent"
    /\ scanFile.present /\ Len(scanFile.detections) = 2
    /\ StatusResponse.status = "complete"

\* C21: the non-streaming scan does not abort on a failing mission, and for
\* the missions and collaborator outcomes of a background scan that completed
\* it returns the detections that scan recorded (the same ones, as many) and
\* persists the clusters and the narrative that scan persisted.
C21_SyncScanMatchesBackground ==
    sync.status # "none" =>
        /\ sync.status # "mission_raised"
        /\ (sync.status = "success" /\ pc = "done") =>
              /\ Len(sync.detections) = Len(all_results)
              /\ SeqSet(sync.detections) = SeqSet(all_results)
              /\ sync.record.clusters = clusters
              /\ sync.record.narrative = narrative

\* C22: no two requests obtain the same scan_id: no progress key is written by
\* two scans, and no two scans save their Scan Records under the same scan_id.
C22_ScanIdsNeverShared ==
    /\ \A i, j \in 1..Len(requests) :
          i # j => requests[i].scan_id # requests[j].scan_id
    /\ \A id \in Seconds : Cardinality(progressWriters[id].writers) <= 1
    /\ \A id \in Seconds : Cardinality(recordWriters[id].writers) <= 1

\* A scan with every optional phase enabled and Redis answering.
FullScanInit == Init /\ deepDiveEnabled /\ correlationEnabled /\ redisUp

FullScanSpec == FullScanInit /\ [][Next]_vars

\* Every task of the first batch has finished, and the Detection of each has
\* been taken from the queue and appended to the detection list.
FirstBatchDrained ==
    /\ Len(tasks) = Len(missions)
    /\ \A i \in 1..Len(tasks) : tasks[i] = "done"
    /\ queue = <<>>
    /\ Len(all_results) >= Len(missions)
    /\ \A i \in 1..Len(missions) :
          \E j \in 1..Len(missions) :
             all_results[j].mission_id = missions[i].id

\* The deep-dive phase has begun: the Detections are being examined, or a
\* follow-up mission exists or has a task.
DeepDiveBegun ==
    \/ ddIdx > 0
    \/ deep_dive_missions # <<>>
    \/ dd_tasks # <<>>
    \/ dd_queue # <<>>

\* A step that calls should_deep_dive / generate_followups, or in which a
\* follow-up mission starts executing.
DeepDiveStep ==
    \/ ddIdx' # ddIdx
    \/ deep_dive_missions' # deep_dive_missions
    \/ dd_tasks' # dd_tasks
    \/ dd_queue' # dd_queue

\* C23: no follow-up mission starts executing, and should_deep_dive /
\* generate_followups is called for no Detection, before every mission task of
\* the first batch has finished and its Detection has been taken from the
\* queue and appended to the detection list.
C23_NoDeepDiveBeforeBatchDrained ==
    /\ [](DeepDiveBegun => FirstBatchDrained)
    /\ [][DeepDiveStep => FirstBatchDrained]_vars

\* Two missions, the second of which completed first, and a follow-up mission
\* of the batch has run.
C23_Witness ==
    /\ Len(missions) = 2
    /\ Len(all_results) >= 2
    /\ all_results[1].mission_id = missions[2].id
    /\ dd_tasks # <<>> /\ dd_tasks[1] = "done"

\* The Detection the fan-in loop that is waiting takes next: the one whose
\* task completed first among those not yet taken.
NextCompleted == IF pc = "dd_fanin" THEN Head(dd_queue) ELSE Head(queue)

\* A turn of one of the two fan-in loops.
FanInTurn == completed' # completed

\* From one snapshot of a scan that has not failed to the next, the detection
\* list stays as it is or gains, at its end, the Detection that completed next;
\* a snapshot written by a turn of a fan-in loop gains exactly that one and
\* counts as many completions as it lists Detections.
C24_SnapshotStep ==
    last'.status \in {"running", "complete"} =>
        /\ \/ last'.detections = last.detections
           \/ /\ FanInTurn
              /\ last'.detections = Append(last.detections, NextCompleted)
        /\ FanInTurn =>
              /\ last'.detections = Append(last.detections, NextCompleted)
              /\ last'.progress.completed = Len(last'.detections)

\* A snapshot of phase 2 or 3 counts as many completions as it lists
\* Detections.
C24_CountIsLength ==
    last.phase \in {"executing", "deep_dive"} =>
        last.progress.completed = Len(last.detections)

\* C24: within a running scan, whatever the order in which the mission tasks
\* complete, each snapshot's detection list extends the list of the snapshot
\* before it by appending at the end, in the order of completion, and in the
\* snapshots the fan-in loops write progress.completed is the length of the
\* detection list.
C24_DetectionsAppendedInCompletionOrder ==
    /\ []C24_CountIsLength
    /\ [][C24_SnapshotStep]_vars

\* A deep-dive snapshot listing three Detections, the first of which is of the
\* second mission submitted.
C24_Witness ==
    /\ last.phase = "deep_dive"
    /\ Len(last.detections) = 3
    /\ Len(missions) = 2
    /\ last.detections[1].mission_id = missions[2].id
    /\ last.detections[2].mission_id = missions[1].id
    /\ last.progress.completed = 3

\* The Detections the scan holds: those appended and those still queued.
Yielded == all_results \o queue \o dd_queue

\* How many of the Detections the scan holds carry the id.
YieldedFor(id) ==
    Cardinality({j \in 1..Len(Yielded) : Yielded[j].mission_id = id})

\* Each mission whose task has ended yielded exactly one Detection with the
\* mission's id.
C25_OneDetectionPerMission ==
    /\ \A i \in 1..Len(tasks) :
          tasks[i] # "created" => YieldedFor(missions[i].id) = 1
    /\ \A i \in 1..Len(dd_tasks) :
          dd_tasks[i] # "created" => YieldedFor(deep_dive_missions[i].id) = 1

\* One notification task per Detection appended (and one more for the
\* narrative once it has been generated).
C25_OneNotificationPerDetection ==
    IF pc \in {"done", "failed"}
    THEN slack \in {Len(all_results), Len(all_results) + 1}
    ELSE slack = Len(all_results)

\* C25: each mission launched in a scan is executed once and yields exactly
\* one Detection carrying its id in the detection list, and exactly one
\* notification task is spawned for each Detection appended.
C25_EachMissionYieldsOneDetection ==
    /\ C25_OneDetectionPerMission
    /\ C25_OneNotificationPerDetection

\* The depths generate_followups may be called with.
Depths == 0..(MAX_DEPTH + 1)

\* generate_followups on the Detection the orchestrator is examining: nothing
\* at MAX_DEPTH or deeper, and follow-ups one level below the depth given.
C26_FollowupsOneLevelDown ==
    (pc = "expand" /\ ddIdx <= Len(all_results)) =>
        \A depth \in Depths, ans \in FollowupAnswers :
            LET followups == generate_followups(all_results[ddIdx], depth, ans) IN
            /\ depth >= MAX_DEPTH => followups = <<>>
            /\ \A i \in 1..Len(followups) :
                  /\ followups[i].depth = depth + 1
                  /\ followups[i].depth <= MAX_DEPTH

\* No mission and no Detection of the scan is deeper than MAX_DEPTH, and the
\* follow-up missions all come from Detections of the first batch.
C26_DepthBounded ==
    /\ \A i \in 1..Len(missions) : missions[i].depth <= MAX_DEPTH
    /\ \A i \in 1..Len(deep_dive_missions) :
          /\ deep_dive_missions[i].depth <= MAX_DEPTH
          /\ deep_dive_missions[i].depth = 1
          /\ \E j \in 1..Min(Len(all_results), Len(missions)) :
                /\ all_results[j].mission_id = deep_dive_missions[i].parent
                /\ all_results[j].depth = 0
    /\ \A j \in 1..Len(Yielded) : Yielded[j].depth <= MAX_DEPTH
    /\ ddIdx <= Len(missions) + 1

\* Once the follow-up tasks exist no Detection is examined and no follow-up
\* is added: the deep dive is one round.
C26_OneRound ==
    dd_tasks # <<>> =>
        /\ ddIdx' = ddIdx
        /\ deep_dive_missions' = deep_dive_missions
        /\ dd_tasks' # <<>>

WellFormedFollowups(ans) == ans.kind = "json" /\ ans.lastHasQuery

\* C27: generate_followups returns at most MAX_FOLLOWUPS missions per call,
\* each with parent_mission_id equal to the mission_id of the Detection it was
\* called for; for an answer that is not a well-formed list of follow-up
\* objects, a list with an element that lacks a query included, it returns the
\* empty list.
C27_FollowupsBoundedOrEmpty ==
    (pc = "expand" /\ ddIdx <= Len(all_results)) =>
        \A depth \in Depths, ans \in FollowupAnswers :
            LET followups == generate_followups(all_results[ddIdx], depth, ans) IN
            /\ Len(followups) <= MAX_FOLLOWUPS
            /\ \A i \in 1..Len(followups) :
                  followups[i].parent = all_results[ddIdx].mission_id
            /\ ~WellFormedFollowups(ans) => followups = <<>>

\* The entity references of the candidates _find_overlaps returned.
Candidates == {call.overlaps[i].entity : i \in 1..Len(call.overlaps)}

\* The Detections handed to correlate that hold the entity reference.
HoldersOf(e) ==
    {i \in 1..Len(call.detections) : e \in EntityRefs(call.detections[i])}

\* The entity references of all rows of the Detections handed to correlate.
AllEntityRefs ==
    UNION {EntityRefs(call.detections[i]) : i \in 1..Len(call.detections)}

\* C28: an entity reference is a candidate overlap exactly when rows holding it
\* come from at least 2 distinct mission_ids: one seen in 2 (or more) of the
\* Detections is included, one seen in only 1 Detection is excluded.
C28_CandidateIffTwoMissions ==
    call.fn = "correlate" =>
        /\ Candidates = Overlaps(call.detections)
        /\ \A e \in AllEntityRefs :
              /\ Cardinality(HoldersOf(e)) >= 2 => e \in Candidates
              /\ Cardinality(HoldersOf(e)) = 1 => e \notin Candidates

\* C28 as the code has it: a candidate is an entity reference held by rows of
\* at least 2 distinct mission_ids; all such references are candidates when
\* there are at most MAX_OVERLAPS of them, MAX_OVERLAPS of them otherwise; a
\* reference seen in only 1 Detection is never a candidate.
C28_CandidatesWithinCap ==
    call.fn = "correlate" =>
        /\ Candidates \subseteq Overlaps(call.detections)
        /\ Cardinality(Overlaps(call.detections)) <= MAX_OVERLAPS =>
              Candidates = Overlaps(call.detections)
        /\ Cardinality(Candidates) = Len(call.overlaps)
        /\ Len(call.overlaps) =
              Min(MAX_OVERLAPS, Cardinality(Overlaps(call.detections)))
        /\ \A e \in AllEntityRefs :
              Cardinality(HoldersOf(e)) = 1 => e \notin Candidates

\* Three Detections of three missions: an entity in two rows of the first
\* only, which is no candidate, and one in the other two, which is.
C28_Witness ==
    /\ call.fn = "correlate"
    /\ Len(call.detections) = 3
    /\ Cardinality({call.detections[i].mission_id : i \in 1..3}) = 3
    /\ HoldersOf("user_id:u1") = {1}
    /\ Len(call.detections[1].results) = 2
    /\ Cardinality(AllEntityRefs) = 2
    /\ Len(call.overlaps) = 1
    /\ "user_id:u1" \notin Candidates

\* The candidate ranks strictly above the other: cross-domain first, then
\* more contributing missions.
RanksAbove(a, b) ==
    \/ a.cross_domain /\ ~b.cross_domain
    \/ a.cross_domain = b.cross_domain /\ Len(a.missions) > Len(b.missions)

\* The entries of the entity map that qualify, as candidates.
Qualifying ==
    {[entity |-> call.entity_map[i].entity,
      missions |-> call.entity_map[i].missions,
      cross_domain |-> CrossDomain(call.entity_map[i])] :
        i \in {j \in 1..Len(call.entity_map) : IsOverlap(call.entity_map[j])}}

\* The answer of the clustering LLM is no JSON list.
MalformedClusters(ans) == ans.kind \in {"text", "object"}

\* At most MAX_OVERLAPS candidates, in rank order, none left out that ranks
\* above one that was kept.
C29_FirstTenInRankOrder ==
    /\ Len(call.overlaps) <= MAX_OVERLAPS
    /\ \A i, j \in 1..Len(call.overlaps) :
          i < j => ~RanksAbove(call.overlaps[j], call.overlaps[i])
    /\ \A q \in Qualifying :
          q.entity \notin Candidates =>
              /\ Len(call.overlaps) = MAX_OVERLAPS
              /\ \A i \in 1..Len(call.overlaps) : ~RanksAbove(q, call.overlaps[i])

\* No overlap: the empty list, the LLM not asked.
C29_NoOverlapNoCall ==
    call.overlaps = <<>> =>
        ~call.asked /\ call.shape = "list" /\ call.clusters = <<>>

\* Malformed output of the LLM: the empty list.
C29_MalformedGivesEmpty ==
    MalformedClusters(call.answer) =>
        call.shape = "list" /\ call.clusters = <<>>

\* C29: correlate hands the clustering LLM at most 10 candidate overlaps, the
\* first 10 in the order cross-domain first and, within each group, more
\* contributing missions first; with no overlap it returns the empty list
\* without calling the LLM, and on malformed output of the LLM it returns the
\* empty list.
C29_CorrelateBoundedAndSafe ==
    call.fn = "correlate" =>
        /\ C29_FirstTenInRankOrder
        /\ C29_NoOverlapNoCall
        /\ C29_MalformedGivesEmpty

\* The risk scores of all Detections, those that are 0 included.
AllScores(detections) == [i \in 1..Len(detections) |-> detections[i].risk_score]

\* The rounded mean of the (at most) 5 highest of the scores, 0 for none.
MeanOfTopFive(scores) ==
    IF scores = <<>> THEN 0
    ELSE RoundHalfEven(SumSeq(TopK(scores, 5)), Len(TopK(scores, 5)))

\* overall_severity is derived from overall_risk by the thresholds 75, 50, 25.
C30_SeverityByThresholds ==
    (narrative.present /\ ~narrative.fixed) =>
        narrative.overall_severity =
            (IF narrative.overall_risk >= 75 THEN "CRITICAL"
             ELSE IF narrative.overall_risk >= 50 THEN "HIGH"
             ELSE IF narrative.overall_risk >= 25 THEN "MEDIUM"
             ELSE "LOW")

\* C30: when the narrative LLM succeeds, the Narrative's overall_risk is the
\* rounded mean of the 5 highest risk_score values among all Detections (of all
\* of them when there are fewer than 5, Detections whose score is 0 counted),
\* and overall_severity is CRITICAL from 75, HIGH from 50, MEDIUM from 25, LOW
\* below.
C30_OverallRiskIsMeanOfTopFive ==
    (narrative.present /\ ~narrative.fixed) =>
        /\ narrative.overall_risk = MeanOfTopFive(AllScores(all_results))
        /\ C30_SeverityByThresholds

\* C31: when the narrative LLM's output holds a well-formed overall_risk, the
\* Narrative generate returns carries that proposed overall_risk, not the
\* value computed from the risk scores of the Detections.
C31_ProposedRiskOverrides ==
    call.fn = "generate" => call.narrative.overall_risk = call.proposed

\* ------------------------------------------------- detached notifications
\* What a notify_slack / notify_slack_narrative task can end with: True
\* (posted), False (below the minimum severity, no token, Slack said no, or
\* the post raised and was caught), or an exception out of the coroutine.
NotificationOutcomes == {"True", "False", "raised"}

\* A notification task whose exception ends the scan.
notification_failure_fails_scan ==
    /\ slack > 0
    /\ \E outcome \in NotificationOutcomes :
         /\ alerts' = outcome
         /\ IF outcome = "raised"
            THEN /\ update_progress(FailedSnapshot("notification raised"))
                 /\ pc' = "failed"
            ELSE UNCHANGED <<stored, last, phases, pc>>
    /\ UNCHANGED <<settingsVars, requestVars, call, historyVars, syncVars,
                   storeVars, batchVars, ddVars, clusters, narrative, faults,
                   slack, memoryVars, logVars, persistVars>>

\* A task made by asyncio.create_task(notify_slack(result)) or
\* asyncio.create_task(notify_slack_narrative(narrative)) finishes. Nobody
\* holds the task object, so its result or exception goes nowhere.
notification_ends ==
    /\ slack > 0
    /\ \E outcome \in NotificationOutcomes : alerts' = outcome
    /\ UNCHANGED <<settingsVars, redisUp, requestVars, call, historyVars,
                   scanVars, memoryVars, logVars, persistVars>>

\* The largest plan of the scans whose notifications are followed.
MaxNotified == 2

NotifyNext == (Next /\ Len(missions') <= MaxNotified) \/ notification_ends

NotifySpec == FullScanInit /\ [][NotifyNext]_vars

\* The orchestrator is inside _run_scan_background.
OrchestratorRunning == pc \notin {"idle", "done", "failed"}

\* The orchestrator is at queue.get() with nothing queued, or at gather with
\* a mission task still running.
WaitsForMissionTask ==
    \/ pc = "fanin" /\ queue = <<>>
    \/ pc = "gather" /\ \E i \in 1..Len(tasks) : tasks[i] = "created"
    \/ pc = "dd_fanin" /\ dd_queue = <<>>
    \/ pc = "dd_gather" /\ \E i \in 1..Len(dd_tasks) : dd_tasks[i] = "created"

\* C32: no outcome of a notification task influences the scan. A step in
\* which a notification finishes (posted, False, raised) leaves the
\* snapshots, the status, the Detections and every persisted record as they
\* were; a failed status always comes from an exception of the scan itself;
\* and the orchestrator never waits for a notification: while it is running
\* it can take its next step unless it is waiting for a mission task.
C32_NotificationsNeverInfluenceScan ==
    /\ [](last.status = "failed" => ExceptionEscaped)
    /\ []((OrchestratorRunning /\ ~WaitsForMissionTask)
            => ENABLED OrchestratorStep)
    /\ [][alerts' # alerts => UNCHANGED <<scanVars, historyVars>>]_vars

\* The scan completed and persisted its record although a notification
\* raised.
C32_Witness ==
    /\ last.status = "complete"
    /\ scanFile # NoRecord
    /\ alerts = "raised"

\* C33: the summary history is capped everywhere: the file and the Redis key
\* never hold more than MAX_HISTORY summaries, a save that succeeded left
\* there the most recent summaries in order, and the history that
\* get_adaptive_context reads and counts is that same capped history.
C33_SummaryHistoryCapped ==
    /\ Len(memory_file) <= MAX_HISTORY
    /\ Len(scan_history_key) <= MAX_HISTORY
    /\ call.fn = "record_scan" =>
         /\ call.written => memory_file = LastN(history, MAX_HISTORY)
         /\ redisUp => scan_history_key = LastN(history, MAX_HISTORY)
    /\ Len(history) <= MAX_HISTORY
    /\ call.fn = "get_adaptive_context" =>
         call.context.scan_count <= MAX_HISTORY

\* The positions of the last n summaries of the history held in memory.
LastPositions(n) == {i \in 1..Len(history) : i > Len(history) - n}

\* Sum and number of the per-scan averages of domain d in the last 5 summaries.
SumOverLastFive(d) ==
    SumSeq([i \in 1..Len(history) |->
              IF i \in LastPositions(5) /\ d \in DOMAIN history[i].domain_scores
              THEN history[i].domain_scores[d] ELSE 0])

CountOverLastFive(d) ==
    Cardinality({i \in LastPositions(5) : d \in DOMAIN history[i].domain_scores})

\* n is an integer nearest to 2 + avg / 40, avg the mean of the domain's
\* per-scan averages (0 when there is none).
NearestToWeight(n, d) ==
    LET c == Max(CountOverLastFive(d), 1)
        x == 80 * c + SumOverLastFive(d)
    IN  /\ 2 * (40 * c * n - x) <= 40 * c
        /\ 2 * (x - 40 * c * n) <= 40 * c

\* C34: get_adaptive_context returns for each of the four domains the weight
\* clamp(round(2 + avg/40), 1, 4), avg being the mean of the domain's
\* per-scan average risk over the last 5 summaries (0 when absent), an
\* integer in 1..4; at most 15 distinct avoid_queries, all from the last 3
\* summaries; and focus areas only for CRITICAL missions of the most recent
\* summary.
C34_AdaptiveContextAsSpecified ==
    call.fn = "get_adaptive_context" =>
        LET ctx == call.context IN
        /\ DOMAIN ctx.domain_weights = WeighedDomains
        /\ \A d \in WeighedDomains :
             /\ ctx.domain_weights[d] \in 1..4
             /\ \E n \in 0..8 : /\ NearestToWeight(n, d)
                                /\ ctx.domain_weights[d] = Min(4, Max(1, n))
        /\ Len(ctx.avoid_queries) <= 15
        /\ \A i, j \in 1..Len(ctx.avoid_queries) :
             i # j => ctx.avoid_queries[i] # ctx.avoid_queries[j]
        /\ \A i \in 1..Len(ctx.avoid_queries) :
             \E k \in LastPositions(3) :
                \E m \in SeqSet(history[k].missions) :
                   m.query = ctx.avoid_queries[i]
        /\ \A i \in 1..Len(ctx.focus_areas) :
             \E m \in SeqSet(history[Len(history)].missions) :
                /\ m.severity = "CRITICAL"
                /\ m.domain = ctx.focus_areas[i].domain
                /\ m.name = ctx.focus_areas[i].name
                /\ m.risk_score = ctx.focus_areas[i].risk_score
        /\ ctx.scan_count = Len(history)

\* A context taken from more than five summaries, the last three of which
\* hold more than 15 distinct queries, with a focus area, a domain of weight 4
\* and one of weight 2.
C34_Witness ==
    /\ call.fn = "get_adaptive_context"
    /\ Len(history) > 5
    /\ Len(call.context.avoid_queries) = 15
    /\ Len(recent_queries(LastN(history, 3))) > 15
    /\ call.context.focus_areas # <<>>
    /\ \E d, e \in WeighedDomains :
         /\ call.context.domain_weights[d] = 4
         /\ call.context.domain_weights[e] = 2

\* run_mission of task t is over, by return or by an exception.
Exited(t) == running[t] \in {"returned", "raised"}

\* C35: with missions running as separate tasks, a record logged by mission
\* A's task is only ever in A's buffer, and once run_mission has exited, by
\* return or by an exception, the task's active buffer is cleared, so that
\* no record logged after the exit is in a buffer.
C35_LogsPerMissionAndClosed ==
    /\ \A b \in LogTasks : \A i \in 1..Len(log_buf[b]) :
          /\ log_buf[b][i].by = b
          /\ log_buf[b][i].at = "in_try"
    /\ \A t \in LogTasks : Exited(t) => mission_log_buffer[t] = NoBuffer

\* The phases of a scan that is under way.
RunningPhases ==
    {"brainstorming", "executing", "deep_dive", "correlating", "briefing"}

\* Status and phase of snapshot s agree, and it has a narrative only when
\* complete.
StatusAndPhaseAgree(s) ==
    /\ s.status \in {"running", "complete", "failed"}
    /\ s.status = "complete" <=> s.phase = "complete"
    /\ s.status = "failed" <=> s.phase = "error"
    /\ s.status = "running" <=> s.phase \in RunningPhases
    /\ s.narrative.present => s.status = "complete"

\* C36: in every snapshot written (and so in every snapshot stored) status is
\* complete exactly with phase complete, failed exactly with phase error and
\* running exactly with one of the five phases of a scan under way, and the
\* narrative is non-null only when the status is complete.
C36_StatusAndPhaseAgree ==
    /\ last # NoSnap => StatusAndPhaseAgree(last)
    /\ stored # NoSnap => StatusAndPhaseAgree(stored)
    /\ phases \subseteq RunningPhases \cup {"complete", "error"}

\* A failed scan that had gone through every phase of a scan under way.
C36_Witness ==
    /\ last.status = "failed"
    /\ RunningPhases \subseteq phases
    /\ stored = last

\* The counters of snapshot s are in order.
CountersInOrder(s) ==
    /\ 0 <= s.progress.completed
    /\ s.progress.completed <= s.progress.total

\* C38: in every snapshot written and stored 0 <= progress.completed <=
\* progress.total, also in the deep-dive round, where the follow-ups are
\* added to the total before their Detections are counted.
C38_CompletedWithinTotal ==
    /\ CountersInOrder(last)
    /\ CountersInOrder(stored)
    /\ pc \in {"expand", "dd_fanin", "dd_gather"} =>
          /\ completed <= total
          /\ total = Len(missions) + Len(deep_dive_missions)

\* A deep-dive snapshot that counts a follow-up Detection while another
\* follow-up is still awaited.
C38_Witness ==
    /\ last.phase = "deep_dive"
    /\ last.progress.completed > Len(missions)
    /\ last.progress.completed < last.progress.total

\* A scan has written its final snapshot under progress key id.
TerminalWrittenUnder(id) ==
    \E k \in progressWriters[id].writers : requests[k].state = "saved"

\* C37: once the final snapshot of a scan has been written under a scan_id,
\* nothing is written under that scan_id any more, so a poller that saw
\* complete or failed never sees running, or the other final status, later.
C37_NothingWrittenAfterTerminal ==
    [][\A id \in Seconds :
          TerminalWrittenUnder(id) => progressWriters'[id] = progressWriters[id]]_vars

\* C39: persistence precedes completion. Whenever a complete snapshot has
\* been written, record_scan and save_full_scan have been called once each
\* and have returned, and when the file could be written get_scan returns the
\* scan's record in that very state; no scan calls either of them twice, and
\* a scan that is done has called both.
C39_PersistedBeforeComplete ==
    /\ persist_calls.record_scan <= 1
    /\ persist_calls.save_full_scan <= 1
    /\ (last.status = "complete" \/ stored.status = "complete") =>
          /\ persist_calls.record_scan = 1
          /\ persist_calls.save_full_scan = 1
          /\ persist_calls.disk \in {"ok", "write_fails"}
          /\ persist_calls.disk = "ok" =>
                /\ scanFile = ScanRecord(all_results, clusters, narrative)
                /\ get_scan = scanFile
    /\ persist_calls # NoPersistCalls => pc \in {"done", "failed"}

\* A complete snapshot is stored and get_scan returns the record of the scan,
\* follow-up Detections included.
C39_Witness ==
    /\ stored.status = "complete"
    /\ persist_calls.disk = "ok"
    /\ get_scan.present
    /\ Len(get_scan.detections) > Len(missions)

\* C40: for a completed scan the envelope get_scan_status builds from the
\* Scan Record after the progress key has expired has the status, the
\* detections, clusters and narrative and the progress counters of the final
\* complete snapshot.
C40_EnvelopeMatchesFinalSnapshot ==
    call.fn = "get_scan_status" =>
        /\ call.envelope.status = call.snapshot.status
        /\ call.envelope.detections = call.snapshot.detections
        /\ call.envelope.clusters = call.snapshot.clusters
        /\ call.envelope.narrative = call.snapshot.narrative
        /\ call.envelope.progress = call.snapshot.progress

====
